---- MODULE Spec2Model ----
(***************************************************************************)
(* SemanticSQL: schema processing, the embedding store, retrieval and SQL  *)
(* synthesis, modelled as a state machine.                                 *)
(*                                                                         *)
(* Text is a sequence of atoms.  Text that comes from outside (questions,  *)
(* schema, table and column names, error messages) is a sequence of        *)
(* characters; a literal of the program is one atom standing for its       *)
(* characters, except where the code inspects it (the "--" marker).        *)
(***************************************************************************)
EXTENDS Integers, Sequences, FiniteSets, TLC

(* ------------------------------ bounds -------------------------------- *)
\* connection records ever created (ids are fresh, never reused)
MaxConns == 2
\* process_connection_schema tasks in progress at the same time
MaxActive == 1
\* rows store_vector adds to table_embeddings in the retrieval model
MaxRows == 3
\* coroutines that call generate_embeddings in the embedder model
MaxCallers == 3
\* calls of generate_embeddings each of them makes
MaxCalls == 2
\* runs of process_connection_schema on one connection
MaxRuns == 2
\* facts in a list given to generate_embedding_texts directly
MaxFacts == 3
\* schemas of an introspected database
MaxSchemas == 2

(* ------------------------------ text ---------------------------------- *)
UpperChars == <<"A","B","C","D","E","F","G","H","I","J","K","L","M",
                "N","O","P","Q","R","S","T","U","V","W","X","Y","Z">>
LowerChars == <<"a","b","c","d","e","f","g","h","i","j","k","l","m",
                "n","o","p","q","r","s","t","u","v","w","x","y","z">>

\* str.lower() on one character
LowerChar(ch) ==
    IF \E i \in 1..26 : UpperChars[i] = ch
    THEN LowerChars[CHOOSE i \in 1..26 : UpperChars[i] = ch]
    ELSE ch

\* str.lower()
Lower(s) == [i \in 1..Len(s) |-> LowerChar(s[i])]

\* sub in s
Contains(s, sub) ==
    \E i \in 0..(Len(s) - Len(sub)) :
        \A j \in 1..Len(sub) : s[i + j] = sub[j]

\* s.startswith(pre)
StartsWith(s, pre) ==
    /\ Len(pre) <= Len(s)
    /\ \A j \in 1..Len(pre) : s[j] = pre[j]

\* ", ".join(parts)
RECURSIVE JoinComma(_)
JoinComma(parts) ==
    IF parts = <<>> THEN <<>>
    ELSE IF Len(parts) = 1 THEN parts[1]
    ELSE parts[1] \o <<", ">> \o JoinComma(Tail(parts))

\* s.split("."): the pieces between the dots
RECURSIVE SplitDot(_)
SplitDot(s) ==
    IF \A i \in 1..Len(s) : s[i] # "."
    THEN <<s>>
    ELSE LET p == CHOOSE i \in 1..Len(s) :
                      s[i] = "." /\ \A j \in 1..(i - 1) : s[j] # "."
         IN  <<SubSeq(s, 1, p - 1)>> \o SplitDot(SubSeq(s, p + 1, Len(s)))

\* the elements of a sequence
Range(s) == {s[i] : i \in 1..Len(s)}

\* Python's None, where a text is optional
NoneValue == <<"<None>">>

(* --------------------------- schema facts ----------------------------- *)
public == <<"p","u","b","l","i","c">>
users == <<"u","s","e","r","s">>
orders == <<"o","r","d","e","r","s">>
Orders == <<"O","r","d","e","r","s">>
a_b == <<"a",".","b">>
id == <<"i","d">>
uid == <<"u","i","d">>
INTEGER == <<"I","N","T">>
sales == <<"s","a","l","e","s">>
sch_a == <<"a">>
tab_b_c == <<"b",".","c">>
tab_c == <<"c">>

\* one element of schema_info, as get_schema_metadata appends it
SchemaFact(s, t, c, ty, pk) ==
    [schema_name |-> s, table_name |-> t, column_name |-> c, data_type |-> ty,
     is_primary_key |-> pk, is_foreign_key |-> FALSE,
     foreign_table |-> NoneValue, foreign_column |-> NoneValue]

\* a fact that is a foreign key, as a caller of the Text Unit Builder may pass it
ForeignKeyFact(s, t, c, ty, pk, ft, fc) ==
    [schema_name |-> s, table_name |-> t, column_name |-> c, data_type |-> ty,
     is_primary_key |-> pk, is_foreign_key |-> TRUE,
     foreign_table |-> ft, foreign_column |-> fc]

\* the fact lists the introspected databases of the model have
FactsEmpty == <<>>
FactsUsers == <<SchemaFact(public, users, id, INTEGER, TRUE)>>
FactsOrdersUsers ==
    <<SchemaFact(public, orders, id, INTEGER, TRUE),
      SchemaFact(public, users, id, INTEGER, TRUE)>>
FactsDotted == <<SchemaFact(public, a_b, id, INTEGER, FALSE)>>

\* the schema of the database the n-th connection record points at
TargetSchema(n) ==
    CASE n % 4 = 1 -> FactsOrdersUsers
      [] n % 4 = 2 -> FactsUsers
      [] n % 4 = 3 -> FactsDotted
      [] OTHER -> FactsEmpty

(* ------------------------- Text Unit Builder -------------------------- *)
\* f"{item['schema_name']}.{item['table_name']}"
TableKey(item) == item.schema_name \o <<".">> \o item.table_name

\* the keys of the dict `tables`, in insertion (first-seen) order
RECURSIVE TableKeys(_)
TableKeys(metadata) ==
    IF metadata = <<>> THEN <<>>
    ELSE LET rest == TableKeys(SubSeq(metadata, 1, Len(metadata) - 1))
             k == TableKey(metadata[Len(metadata)])
         IN  IF k \in Range(rest) THEN rest ELSE Append(rest, k)

\* tables[table_key]["columns"]
TableColumns(metadata, key) == SelectSeq(metadata, LAMBDA item : TableKey(item) = key)

\* faulty variant: the foreign-key suffix is appended before the primary-key one
ColumnDescription_ForeignFirst(column) ==
    <<"Column ">> \o column.column_name \o <<" of type ">> \o column.data_type
        \o <<" in table ">> \o column.table_name
        \o (IF column.is_foreign_key
            THEN <<" (Foreign Key to ">> \o column.foreign_table \o <<".">>
                     \o column.foreign_column \o <<")">>
            ELSE <<>>)
        \o (IF column.is_primary_key THEN <<" (Primary Key)">> ELSE <<>>)

ColumnDescription(column) ==
    <<"Column ">> \o column.column_name \o <<" of type ">> \o column.data_type
        \o <<" in table ">> \o column.table_name
        \o (IF column.is_primary_key THEN <<" (Primary Key)">> ELSE <<>>)
        \o (IF column.is_foreign_key
            THEN <<" (Foreign Key to ">> \o column.foreign_table \o <<".">>
                     \o column.foreign_column \o <<")">>
            ELSE <<>>)

TableDescription(columns) ==
    <<"Table ">> \o columns[1].table_name \o <<" in schema ">>
        \o columns[1].schema_name \o <<" with columns: ">>
        \o JoinComma([i \in 1..Len(columns) |-> columns[i].column_name])

TextUnit(s, t, c, d) ==
    [schema_name |-> s, table_name |-> t, column_name |-> c, description |-> d]

\* the units of one table: the table unit, then one unit per column
TableUnits(columns) ==
    <<TextUnit(columns[1].schema_name, columns[1].table_name, NoneValue,
               TableDescription(columns))>>
    \o [i \in 1..Len(columns) |->
          TextUnit(columns[i].schema_name, columns[i].table_name,
                   columns[i].column_name, ColumnDescription(columns[i]))]

RECURSIVE UnitsOfKeys(_, _)
UnitsOfKeys(metadata, keys) ==
    IF keys = <<>> THEN <<>>
    ELSE TableUnits(TableColumns(metadata, Head(keys)))
             \o UnitsOfKeys(metadata, Tail(keys))

generate_embedding_texts(metadata) == UnitsOfKeys(metadata, TableKeys(metadata))

(* --------------------------- embedding store -------------------------- *)
\* the uuid of the n-th connection record
UUID(n) == <<"uuid", n>>

\* json.dumps of a list of numbers
RECURSIVE JsonItems(_)
JsonItems(v) ==
    IF Len(v) = 1 THEN <<v[1]>>
    ELSE <<v[1], ", ">> \o JsonItems(Tail(v))

JsonDumps(v) == IF v = <<>> THEN <<"[]">> ELSE <<"[">> \o JsonItems(v) \o <<"]">>

\* json.loads of such a text
JsonLoads(s) ==
    IF s = <<"[]">> THEN <<>> ELSE [i \in 1..(Len(s) \div 2) |-> s[2 * i]]

\* TableEmbedding(...), as store_embeddings builds it
TableEmbedding(row_id, db_id, unit, embedding) ==
    [id |-> row_id, db_id |-> db_id, schema_name |-> unit.schema_name,
     table_name |-> unit.table_name, column_name |-> unit.column_name,
     description |-> unit.description, embedding_json |-> JsonDumps(embedding)]

\* TableSchema(...), as save_schema_metadata builds it
TableSchema(db_id, item) ==
    [db_id |-> db_id, schema_name |-> item.schema_name,
     table_name |-> item.table_name, column_name |-> item.column_name,
     is_primary_key |-> item.is_primary_key, is_foreign_key |-> item.is_foreign_key,
     foreign_table |-> item.foreign_table, foreign_column |-> item.foreign_column,
     description |-> <<"Column ">> \o item.column_name \o <<" of type ">>
                         \o item.data_type \o <<" in table ">> \o item.table_name]

(* ------------------------------- embedder ----------------------------- *)
\* faulty variant: the model is constructed on every call
get_embedding_model_Reload(model, loads, load_ok) ==
    IF load_ok
    THEN [raised |-> FALSE, model |-> loads + 1, loads |-> loads + 1]
    ELSE [raised |-> TRUE, model |-> model, loads |-> loads]

\* get_embedding_model: model is _model (0 for None, else the number of the
\* SentenceTransformer instance), loads the number of instances constructed so
\* far, load_ok whether the constructor returns; the function has no await, so
\* no other coroutine runs between its test and its assignment
get_embedding_model(model, loads, load_ok) ==
    IF model = 0
    THEN IF load_ok
         THEN [raised |-> FALSE, model |-> loads + 1, loads |-> loads + 1]
         ELSE [raised |-> TRUE, model |-> 0, loads |-> loads]
    ELSE [raised |-> FALSE, model |-> model, loads |-> loads]

\* generate_embeddings: the instance whose encode is called (0 when none was
\* obtained), whether the call raised, and _model and the loads afterwards
generate_embeddings(model, loads, load_ok, encode_ok) ==
    LET m == get_embedding_model(model, loads, load_ok)
    IN  [raised |-> m.raised \/ ~encode_ok, used |-> m.model,
         model |-> m.model, loads |-> m.loads]

(* ------------------------------ retriever ----------------------------- *)
Dot(a, b) == IF Len(a) = 1 THEN a[1] * b[1] ELSE a[1] * b[1] + a[2] * b[2]
NormSq(a) == Dot(a, a)
Abs(x) == IF x < 0 THEN -x ELSE x

\* the largest finite number of the arithmetic of cosine_similarity, scaled down
MaxFloat == 100

\* the sum of squares of a vector is not finite: its norm is inf, and the
\* vector divided by its norm is the zero vector
Overflows(a) == NormSq(a) > MaxFloat

\* cosine_similarity(a, q) > cosine_similarity(b, q): the cosines are compared
\* by their signed squares; a vector of norm 0 has similarity 0 (sklearn
\* divides by 1 instead of a zero norm), and so has a vector of norm inf
SimGreater(a, b, q) ==
    LET x == IF Overflows(a) \/ Overflows(q) THEN 0 ELSE Dot(a, q)
        y == IF Overflows(b) \/ Overflows(q) THEN 0 ELSE Dot(b, q)
        na == IF NormSq(a) = 0 \/ Overflows(a) THEN 1 ELSE NormSq(a)
        nb == IF NormSq(b) = 0 \/ Overflows(b) THEN 1 ELSE NormSq(b)
    IN  x * Abs(x) * nb > y * Abs(y) * na

\* faulty variant: the WHERE clause is left out
LoadRecords_Unscoped(rows, db_id) ==
    [i \in 1..Len(rows) |->
       [id |-> rows[i].id, schema_name |-> rows[i].schema_name,
        table_name |-> rows[i].table_name, column_name |-> rows[i].column_name,
        description |-> rows[i].description,
        embedding |-> JsonLoads(rows[i].embedding_json)]]

\* the rows SELECT * FROM table_embeddings [WHERE db_id = :db_id] yields, each
\* converted to a dict
LoadRecords(rows, db_id) ==
    LET scoped == IF db_id # NoneValue
                  THEN SelectSeq(rows, LAMBDA row : row.db_id = db_id)
                  ELSE rows
    IN  [i \in 1..Len(scoped) |->
           [id |-> scoped[i].id, schema_name |-> scoped[i].schema_name,
            table_name |-> scoped[i].table_name,
            column_name |-> scoped[i].column_name,
            description |-> scoped[i].description,
            embedding |-> JsonLoads(scoped[i].embedding_json)]]

\* one step of a stable descending sort: x goes after every element that is
\* not smaller than it
RECURSIVE InsertDesc(_, _, _)
InsertDesc(x, sorted, q) ==
    IF sorted = <<>> THEN <<x>>
    ELSE IF SimGreater(x.embedding, Head(sorted).embedding, q)
         THEN <<x>> \o sorted
         ELSE <<Head(sorted)>> \o InsertDesc(x, Tail(sorted), q)

\* faulty variant: an ascending sort followed by reverse(): equal records end up in
\* reverse storage order
RECURSIVE SortBySimilarity_Reversed(_, _)
SortBySimilarity_Reversed(records, q) ==
    IF records = <<>> THEN <<>>
    ELSE InsertDesc(Head(records), SortBySimilarity_Reversed(Tail(records), q), q)

\* records.sort(key=lambda x: x["similarity"], reverse=True)
RECURSIVE SortBySimilarity(_, _)
SortBySimilarity(records, q) ==
    IF records = <<>> THEN <<>>
    ELSE InsertDesc(records[Len(records)],
                    SortBySimilarity(SubSeq(records, 1, Len(records) - 1), q), q)

\* faulty variant: the slice keeps one record more than the limit
SliceTo_OneMore(records, limit) ==
    SubSeq(records, 1, IF limit + 1 < Len(records) THEN limit + 1 ELSE Len(records))

\* records[:limit]
SliceTo(records, limit) ==
    IF limit >= 0
    THEN SubSeq(records, 1, IF limit < Len(records) THEN limit ELSE Len(records))
    ELSE SubSeq(records, 1, IF Len(records) + limit > 0 THEN Len(records) + limit ELSE 0)

query_vector_store(rows, query_embedding, db_id, limit) ==
    LET records == LoadRecords(rows, db_id)
    IN  IF records = <<>> THEN <<>>
        ELSE SliceTo(SortBySimilarity(records, query_embedding), limit)

\* faulty variant: only the column-level rows are selected
get_table_context_ColumnsOnly(rows, db_id, table_name, schema_name) ==
    LET found == SelectSeq(rows, LAMBDA row :
                     /\ row.db_id = db_id
                     /\ row.table_name = table_name
                     /\ row.column_name # NoneValue)
    IN  [i \in 1..Len(found) |->
           [id |-> found[i].id, schema_name |-> found[i].schema_name,
            table_name |-> found[i].table_name,
            column_name |-> found[i].column_name,
            description |-> found[i].description]]

\* faulty variant: the schema name is never added to the WHERE clause
get_table_context_AnySchema(rows, db_id, table_name, schema_name) ==
    LET found == SelectSeq(rows, LAMBDA row :
                     /\ row.db_id = db_id
                     /\ row.table_name = table_name)
    IN  [i \in 1..Len(found) |->
           [id |-> found[i].id, schema_name |-> found[i].schema_name,
            table_name |-> found[i].table_name,
            column_name |-> found[i].column_name,
            description |-> found[i].description]]

\* SELECT ... WHERE db_id = :db_id AND table_name = :table_name
\* [AND schema_name = :schema_name]
get_table_context(rows, db_id, table_name, schema_name) ==
    LET found == SelectSeq(rows, LAMBDA row :
                     /\ row.db_id = db_id
                     /\ row.table_name = table_name
                     /\ (schema_name # NoneValue /\ schema_name # <<>>)
                            => row.schema_name = schema_name)
    IN  [i \in 1..Len(found) |->
           [id |-> found[i].id, schema_name |-> found[i].schema_name,
            table_name |-> found[i].table_name,
            column_name |-> found[i].column_name,
            description |-> found[i].description]]

(* --------------------------- query synthesizer ------------------------ *)
\* get_llm_model(): the client (TRUE) or None (FALSE), and the cache afterwards;
\* cached is "cache_key in _llm_cache", init_ok tells whether constructing
\* ChatGoogleGenerativeAI succeeds
get_llm_model(cached, key_set, init_ok) ==
    IF cached THEN [llm |-> TRUE, cached |-> TRUE]
    ELSE IF ~key_set THEN [llm |-> FALSE, cached |-> FALSE]
    ELSE IF init_ok THEN [llm |-> TRUE, cached |-> TRUE]
    ELSE [llm |-> FALSE, cached |-> FALSE]

IsSpace(atom) == atom \in {" ", "\n"}

\* str.strip()
RECURSIVE Strip(_)
Strip(s) ==
    IF s = <<>> THEN s
    ELSE IF IsSpace(Head(s)) THEN Strip(Tail(s))
    ELSE IF IsSpace(s[Len(s)]) THEN Strip(SubSeq(s, 1, Len(s) - 1))
    ELSE s

\* s.replace(old, "")
RECURSIVE RemoveAll(_, _)
RemoveAll(s, old) ==
    IF Len(s) < Len(old) THEN s
    ELSE IF StartsWith(s, old) THEN RemoveAll(SubSeq(s, Len(old) + 1, Len(s)), old)
    ELSE <<Head(s)>> \o RemoveAll(Tail(s), old)

\* the code-fence marker (three backquotes) is the atom "<fence>"
FenceSql == <<"<fence>", "sql">>
Fence == <<"<fence>">>

\* "Handle code block formatting from the LLM"
StripFences(result) ==
    LET sql_query == Strip(result)
    IN  IF StartsWith(sql_query, FenceSql)
        THEN Strip(RemoveAll(RemoveAll(sql_query, FenceSql), Fence))
        ELSE IF StartsWith(sql_query, Fence)
        THEN Strip(RemoveAll(sql_query, Fence))
        ELSE sql_query

\* set([item["table_name"] for item in schema_metadata])
TableNames(schema_metadata) ==
    {schema_metadata[i].table_name : i \in 1..Len(schema_metadata)}

CommentMarker == <<"--">>

\* faulty variant: a failed model call is retried once before the error is reported
generate_sql_with_llm_Retry(user_query, schema_metadata, llm, key_set, first, outcome) ==
    IF ~llm \/ ~key_set
    THEN [sql |-> CommentMarker \o <<" Placeholder query (no LLM API key)", "\n",
                                     "SELECT * FROM ">>
                     \o (IF TableNames(schema_metadata) # {} THEN first
                         ELSE <<"table">>)
                     \o <<" LIMIT 10;">>,
          invocations |-> 0]
    ELSE IF outcome.raised
    THEN [sql |-> CommentMarker \o <<" Error generating SQL with LLM: ">>
                     \o outcome.error
                     \o <<"\n">> \o CommentMarker \o <<" Natural language query: ">>
                     \o user_query,
          invocations |-> 2]
    ELSE [sql |-> StripFences(outcome.text), invocations |-> 1]

\* generate_sql_with_llm: the text returned and the number of model invocations.
\* llm is get_llm_model()'s result, first is tables[0] of list(set(...)) (any
\* element of the set), outcome is what chain.run does: it returns outcome.text
\* or raises outcome.error
generate_sql_with_llm(user_query, schema_metadata, llm, key_set, first, outcome) ==
    IF ~llm \/ ~key_set
    THEN [sql |-> CommentMarker \o <<" Placeholder query (no LLM API key)", "\n",
                                     "SELECT * FROM ">>
                     \o (IF TableNames(schema_metadata) # {} THEN first
                         ELSE <<"table">>)
                     \o <<" LIMIT 10;">>,
          invocations |-> 0]
    ELSE IF outcome.raised
    THEN [sql |-> CommentMarker \o <<" Error generating SQL with LLM: ">>
                     \o outcome.error
                     \o <<"\n">> \o CommentMarker \o <<" Natural language query: ">>
                     \o user_query,
          invocations |-> 1]
    ELSE [sql |-> StripFences(outcome.text), invocations |-> 1]

\* refine_query_with_llm: the text returned and the number of model
\* invocations; llm and outcome are as in generate_sql_with_llm
refine_query_with_llm(original_query, user_feedback, schema_metadata, llm, key_set, outcome) ==
    IF ~llm \/ ~key_set
    THEN [sql |-> CommentMarker \o <<" Cannot refine query without LLM API key", "\n">>
                     \o original_query,
          invocations |-> 0]
    ELSE IF outcome.raised
    THEN [sql |-> CommentMarker \o <<" Error refining SQL with LLM: ">>
                     \o outcome.error \o <<"\n">> \o original_query,
          invocations |-> 1]
    ELSE [sql |-> StripFences(outcome.text), invocations |-> 1]

(* ----------------------------- query pipeline ------------------------- *)
\* default of the parameter k of generate_query_from_search
K == 5

\* the set unique_tables
UniqueTables(relevant_schema) ==
    {TableKey(relevant_schema[i]) : i \in 1..Len(relevant_schema)}

\* the orders in which a Python set of these elements can be iterated
IterationOrders(S) ==
    {o \in [1..Cardinality(S) -> S] : \A i, j \in DOMAIN o : i # j => o[i] # o[j]}

\* schema_name, table_name = table_key.split(".") succeeds for every key
UnpackOk(keys) == \A key \in keys : Len(SplitDot(key)) = 2

\* table_contexts, for the iteration order `order` of unique_tables
RECURSIVE TableContexts(_, _, _)
TableContexts(rows, db_id, order) ==
    IF order = <<>> THEN <<>>
    ELSE LET parts == SplitDot(Head(order))
         IN  get_table_context(rows, db_id, parts[2], parts[1])
                 \o TableContexts(rows, db_id, Tail(order))

NoSchemaFound ==
    CommentMarker \o <<" ", "No relevant schema found", " for the query">>

ErrorGenerating(error, user_query) ==
    CommentMarker \o <<" Error generating SQL: ">> \o error \o <<"\n">>
        \o CommentMarker \o <<" Query: ">> \o user_query

UnpackError == <<"too many values to unpack (expected 2)">>

\* generate_query_from_search.  embed is what generate_embeddings does with the
\* question (returns embed.vector or raises embed.error), order the iteration
\* order of unique_tables; llm, key_set, first and outcome are as in
\* generate_sql_with_llm.
generate_query_from_search(user_query, rows, db_id, k, embed, order, llm, key_set, first, outcome) ==
    IF embed.raised
    THEN [sql |-> ErrorGenerating(embed.error, user_query), relevant_schema |-> <<>>,
          table_contexts |-> <<>>, invocations |-> 0]
    ELSE LET relevant_schema == query_vector_store(rows, embed.vector, db_id, k)
         IN  IF relevant_schema = <<>>
             THEN [sql |-> NoSchemaFound, relevant_schema |-> <<>>,
                   table_contexts |-> <<>>, invocations |-> 0]
             ELSE IF ~UnpackOk(UniqueTables(relevant_schema))
             THEN [sql |-> ErrorGenerating(UnpackError, user_query),
                   relevant_schema |-> <<>>, table_contexts |-> <<>>,
                   invocations |-> 0]
             ELSE LET table_contexts == TableContexts(rows, db_id, order)
                      r == generate_sql_with_llm(user_query, table_contexts, llm,
                                                 key_set, first, outcome)
                  IN  [sql |-> r.sql, relevant_schema |-> relevant_schema,
                       table_contexts |-> table_contexts,
                       invocations |-> r.invocations]

(* ------------------------------- state -------------------------------- *)
VARIABLES
    database_connections,  \* ids of the rows of table database_connections
    table_schemas,         \* rows of table table_schemas, in storage order
    table_embeddings,      \* rows of table table_embeddings, in storage order
    row_owner,             \* history: db_id of every embedding row ever stored
    row_unit,              \* history: the text unit every embedding row was stored for
    task,                  \* per connection: its process_connection_schema task
    api_key,               \* settings.GEMINI_API_KEY is set
    llm_cache,             \* _llm_cache holds the client
    generation,            \* the last generate_query_from_search call
    call,                  \* the last direct call of a synthesizer function
    search,                \* the last direct call of query_vector_store
    embedder,              \* _model of the embedder and the callers of embed
    db_service             \* the DatabaseService singleton: its registries, its last call

vars == <<database_connections, table_schemas, table_embeddings, row_owner, row_unit, task,
          api_key, llm_cache, generation, call, search, embedder, db_service>>

storeVars == <<database_connections, table_schemas, table_embeddings, row_owner, row_unit, task>>

ConnNums == 1..MaxConns

NoTask ==
    [pc |-> "none", schema_metadata |-> <<>>, embedding_texts |-> <<>>, i |-> 0,
     stored |-> <<>>, failed_stage |-> "", failed_unit |-> 0, batch |-> "",
     delete_raised |-> FALSE, result |-> "", tested |-> FALSE, created |-> "",
     deleted |-> "", run |-> 1]

NoGeneration == [kind |-> "none"]
NoCall == [kind |-> "none"]
NoSearch == [kind |-> "none"]

InitStore ==
    /\ database_connections = {}
    /\ table_schemas = <<>>
    /\ table_embeddings = <<>>
    /\ row_owner = <<>>
    /\ row_unit = <<>>
    /\ task = [n \in ConnNums |-> NoTask]

Callers == 1..MaxCallers

\* _model = None (model 0, nothing loaded yet) and no call made
InitEmbedder ==
    embedder = [model |-> 0, loads |-> 0,
                caller |-> [c \in Callers |-> [calls |-> 0, raised |-> FALSE, used |-> 0]]]

InitSynthesizer ==
    /\ InitEmbedder
    /\ llm_cache = FALSE
    /\ generation = NoGeneration
    /\ call = NoCall
    /\ search = NoSearch

\* the connection endpoints and the schema processing run without a language
\* model: they never read the key
\* DatabaseService() when no resources/connections.json exists
NoRegistry == [cid \in {} |-> cid]

InitDatabaseService ==
    db_service = [connections |-> NoRegistry, engines |-> NoRegistry,
                  last |-> [kind |-> "none"]]

Init == InitStore /\ InitSynthesizer /\ InitDatabaseService /\ api_key = FALSE

(* ------------------------- connection endpoints ------------------------ *)
\* faulty variant: the record is saved before the connectivity test
create_db_connection_SaveFirst(conns, db_id, test_ok, commit_ok) ==
    IF ~commit_ok
    THEN [connection |-> NoneValue, message |-> "Error creating connection",
          conns |-> conns]
    ELSE IF ~test_ok
    THEN [connection |-> NoneValue, message |-> "Failed to connect to database",
          conns |-> conns \cup {db_id}]
    ELSE [connection |-> db_id, message |-> "Connection created successfully",
          conns |-> conns \cup {db_id}]

\* create_db_connection: the connection and message it returns and the
\* connection table afterwards.  test_ok is test_connection's verdict,
\* commit_ok whether db.add / db.commit succeed (the except branch rolls back).
create_db_connection(conns, db_id, test_ok, commit_ok) ==
    IF ~test_ok
    THEN [connection |-> NoneValue, message |-> "Failed to connect to database",
          conns |-> conns]
    ELSE IF ~commit_ok
    THEN [connection |-> NoneValue, message |-> "Error creating connection",
          conns |-> conns]
    ELSE [connection |-> db_id, message |-> "Connection created successfully",
          conns |-> conns \cup {db_id}]

\* a process_connection_schema task is between its first and its last step
InProgress(n) == task[n].pc \in {"extract", "save", "embed"}

\* connect_database: create_db_connection, then the background task is added;
\* HTTP 400 when no connection is returned
connect_database(n, test_ok, commit_ok) ==
    /\ task[n].pc = "none"
    /\ \A m \in ConnNums : m < n => task[m].pc # "none"
    /\ Cardinality({m \in ConnNums : InProgress(m)}) < MaxActive
    /\ LET r == create_db_connection(database_connections, UUID(n), test_ok, commit_ok)
       IN  /\ database_connections' = r.conns
           /\ task' = [task EXCEPT ![n] =
                          [NoTask EXCEPT !.pc = IF r.connection = NoneValue
                                                THEN "refused" ELSE "extract",
                                         !.tested = test_ok,
                                         !.created = r.message]]
    /\ UNCHANGED <<db_service, embedder, row_unit, table_schemas, table_embeddings, row_owner, api_key, llm_cache,
                   generation, call, search>>

\* delete_connection: 404 when there is no such record; otherwise the rows of
\* both tables and the record are deleted in one commit.  task[n].deleted
\* records whether the task of the connection was still running.
delete_connection(n, commit_ok) ==
    /\ IF UUID(n) \in database_connections /\ commit_ok
       THEN /\ table_embeddings' =
                  SelectSeq(table_embeddings, LAMBDA row : row.db_id # UUID(n))
            /\ table_schemas' =
                  SelectSeq(table_schemas, LAMBDA row : row.db_id # UUID(n))
            /\ database_connections' = database_connections \ {UUID(n)}
            /\ task' = [task EXCEPT ![n].deleted =
                                       IF InProgress(n) THEN "during" ELSE "after"]
       ELSE UNCHANGED <<table_embeddings, table_schemas, database_connections, task>>
    /\ UNCHANGED <<db_service, embedder, row_unit, row_owner, api_key, llm_cache, generation, call, search>>

(* ---------------------- process_connection_schema ---------------------- *)
\* faulty variant: the except branch logs the error and leaves the record
RollbackConnections_Keep(conns, db_id, delete_ok) == conns

\* db.delete(connection); db.commit() of the except branch: the connection
\* table afterwards
RollbackConnections(conns, db_id, delete_ok) ==
    IF delete_ok THEN conns \ {db_id} ELSE conns

\* the except branch of process_connection_schema, entered from `stage`
ExceptBranch(n, stage, unit, delete_ok) ==
    /\ database_connections' =
           RollbackConnections(database_connections, UUID(n), delete_ok)
    /\ task' = [task EXCEPT ![n].pc = "done",
                            ![n].failed_stage = stage,
                            ![n].failed_unit = unit,
                            ![n].batch = IF stage = "embed" THEN "raised" ELSE @,
                            ![n].delete_raised = ~delete_ok,
                            ![n].result = "Error processing schema"]

\* 1. extract_database_schema, taken by what its callers rely on: it raises, or
\* returns the fact list of the database (ProcessExtractSchema takes it as it
\* is written)
ProcessExtract(n) ==
    /\ task[n].pc = "extract"
    /\ \/ \E delete_ok \in BOOLEAN : ExceptBranch(n, "extract", 0, delete_ok)
       \/ /\ task' = [task EXCEPT ![n].pc = "save",
                                  ![n].schema_metadata = TargetSchema(n)]
          /\ UNCHANGED database_connections
    /\ UNCHANGED <<db_service, embedder, row_unit, table_schemas, table_embeddings, row_owner, api_key, llm_cache,
                   generation, call, search>>

\* 2. save_schema_metadata: one commit for all the rows; then
\* 3. generate_embedding_texts, which computes the units from the fact list
ProcessSave(n) ==
    /\ task[n].pc = "save"
    /\ \/ /\ \E delete_ok \in BOOLEAN : ExceptBranch(n, "save", 0, delete_ok)
          /\ UNCHANGED table_schemas
       \/ /\ table_schemas' = table_schemas \o
                 [j \in 1..Len(task[n].schema_metadata) |->
                    TableSchema(UUID(n), task[n].schema_metadata[j])]
          /\ task' = [task EXCEPT
                        ![n].pc = "embed",
                        ![n].embedding_texts =
                            generate_embedding_texts(task[n].schema_metadata),
                        ![n].i = 1,
                        ![n].batch = "running"]
          /\ UNCHANGED database_connections
    /\ UNCHANGED <<db_service, embedder, row_unit, table_embeddings, row_owner, api_key, llm_cache, generation,
                   call, search>>

\* the vectors the embedding model returns in the pipeline model
EmbedVectors == {<<1, 0>>}

\* faulty variant: a record of the same connection, table and column is replaced
store_embeddings_Dedup(rows, row_id, db_id, unit, embedding) ==
    Append(SelectSeq(rows, LAMBDA row :
                ~(/\ row.db_id = db_id /\ row.schema_name = unit.schema_name
                  /\ row.table_name = unit.table_name
                  /\ row.column_name = unit.column_name)),
           TableEmbedding(row_id, db_id, unit, embedding))

\* store_embeddings: db_session.add, commit: table_embeddings afterwards
store_embeddings(rows, row_id, db_id, unit, embedding) ==
    Append(rows, TableEmbedding(row_id, db_id, unit, embedding))

\* 4. one iteration of the loop of batch_generate_and_store_embeddings:
\* generate_embeddings, then store_embeddings (add, commit); either may raise,
\* and nothing in the loop catches
ProcessEmbedUnit(n) ==
    /\ task[n].pc = "embed"
    /\ task[n].i <= Len(task[n].embedding_texts)
    /\ \/ /\ \E delete_ok \in BOOLEAN : ExceptBranch(n, "embed", task[n].i, delete_ok)
          /\ UNCHANGED <<table_embeddings, row_owner, row_unit>>
       \/ /\ \E v \in EmbedVectors :
                table_embeddings' = store_embeddings(table_embeddings,
                    Len(row_owner) + 1, UUID(n), task[n].embedding_texts[task[n].i], v)
          /\ row_owner' = Append(row_owner, UUID(n))
          /\ row_unit' = Append(row_unit, task[n].embedding_texts[task[n].i])
          /\ task' = [task EXCEPT ![n].i = @ + 1,
                                  ![n].stored = Append(@, Len(row_owner) + 1)]
          /\ UNCHANGED database_connections
    /\ UNCHANGED <<db_service, embedder, table_schemas, api_key, llm_cache, generation,
                   call, search>>

\* the loop is over: the batch returns stored_embeddings and
\* process_connection_schema returns "Schema processed successfully"
ProcessReturn(n) ==
    /\ task[n].pc = "embed"
    /\ task[n].i > Len(task[n].embedding_texts)
    /\ task' = [task EXCEPT ![n].pc = "done", ![n].batch = "returned",
                            ![n].result = "Schema processed successfully"]
    /\ UNCHANGED <<db_service, embedder, row_unit, database_connections, table_schemas, table_embeddings, row_owner,
                   api_key, llm_cache, generation, call, search>>

process_connection_schema(n) ==
    \/ ProcessExtract(n)
    \/ ProcessSave(n)
    \/ ProcessEmbedUnit(n)
    \/ ProcessReturn(n)

(* --------------------------- query requests --------------------------- *)
how_many_orders == <<"h","o","w"," ","m","a","n","y"," ","o","r","d","e","r","s",
                     " ","a","r","e"," ","t","h","e","r","e">>
list_users == <<"l","i","s","t"," ","u","s","e","r","s">>
show_ORDERS == <<"s","h","o","w"," ","O","R","D","E","R","S">>
hello == <<"h","e","l","l","o">>
count_them == <<"C","o","u","n","t"," ","t","h","e","m">>

quota == <<"q","u","o","t","a">>
oom == <<"o","o","m">>
select_1 == <<"S","E","L","E","C","T"," ","1">>

\* what chain.run / chain.invoke can do: raise, or return a text: plain,
\* fenced, or fenced after a sentence of introduction
LlmOutcomes ==
    {[raised |-> TRUE, error |-> quota, text |-> <<>>],
     [raised |-> FALSE, error |-> <<>>, text |-> select_1 \o <<"\n">>],
     [raised |-> FALSE, error |-> <<>>,
      text |-> FenceSql \o <<"\n">> \o select_1 \o <<"\n">> \o Fence],
     [raised |-> FALSE, error |-> <<>>,
      text |-> <<"Here is the query:", "\n">> \o FenceSql \o <<"\n">> \o select_1
                   \o <<"\n">> \o Fence]}

\* what generate_embeddings can do with a question
EmbedOutcomes ==
    {[raised |-> TRUE, error |-> oom, vector |-> <<>>]}
    \cup {[raised |-> FALSE, error |-> <<>>, vector |-> v] : v \in EmbedVectors}

PipelineQuestions == {how_many_orders, list_users}

\* a request answered by generate_query_from_search for connection n
GenerateQuery(n) ==
    /\ generation = NoGeneration /\ search = NoSearch
    /\ \E user_query \in PipelineQuestions, k \in {1, K}, embed \in EmbedOutcomes,
          init_ok \in BOOLEAN, outcome \in LlmOutcomes :
         LET db_id == UUID(n)
             relevant == IF embed.raised THEN <<>>
                         ELSE query_vector_store(table_embeddings, embed.vector, db_id, k)
             keys == UniqueTables(relevant)
             synthesized == relevant # <<>> /\ UnpackOk(keys)
             m == get_llm_model(llm_cache, api_key, init_ok)
         IN  \E order \in IterationOrders(keys) :
                 LET names == IF synthesized
                              THEN TableNames(TableContexts(table_embeddings, db_id, order))
                              ELSE {}
                 IN  \E first \in (IF names = {} THEN {<<"table">>} ELSE names) :
                         LET r == generate_query_from_search(
                                      user_query, table_embeddings, db_id, k, embed,
                                      order, m.llm, api_key, first, outcome)
                         IN  /\ generation' =
                                    [kind |-> "search", db_id |-> db_id,
                                     user_query |-> user_query, k |-> k,
                                     embed_raised |-> embed.raised,
                                     retrieved |-> Len(relevant),
                                     hit_tables |-> keys,
                                     key_set |-> api_key,
                                     was_cached |-> llm_cache,
                                     init_ok |-> init_ok,
                                     llm |-> synthesized /\ m.llm /\ api_key,
                                     synthesized |-> synthesized,
                                     sql |-> r.sql,
                                     relevant_schema |-> r.relevant_schema,
                                     table_contexts |-> r.table_contexts,
                                     invocations |-> r.invocations]
                             /\ llm_cache' = IF synthesized THEN m.cached ELSE llm_cache
    /\ UNCHANGED <<db_service, embedder, storeVars, api_key, call, search>>

\* the set relevant_tables the endpoint generate_sql_query answers with
relevant_tables(relevant_schema) ==
    {TableKey(relevant_schema[i]) : i \in 1..Len(relevant_schema)}

(* --------------------------- retrieval model --------------------------- *)
\* the connections of the retrieval model
QueryConns == {1, 2}

\* the rows store_vector is called with in the retrieval model
StoredRows ==
    {<<1, generate_embedding_texts(FactsOrdersUsers)[1], <<1, 0>>>>,
     <<1, generate_embedding_texts(FactsOrdersUsers)[1], <<2, 0>>>>,
     <<1, generate_embedding_texts(FactsUsers)[2], <<0, 1>>>>,
     <<1, generate_embedding_texts(FactsDotted)[1], <<1, 1>>>>,
     <<2, generate_embedding_texts(FactsUsers)[1], <<1, 0>>>>,
     <<2, generate_embedding_texts(FactsUsers)[2], <<0, 1>>>>}

\* store_vector: one more row, committed.  Rows are stored before the
\* requests of a behaviour are answered: a request reads only the rows of the
\* state it runs in.
store_vector(n, unit, embedding) ==
    /\ Len(table_embeddings) < MaxRows
    /\ generation = NoGeneration /\ search = NoSearch
    /\ table_embeddings' = Append(table_embeddings,
           TableEmbedding(Len(row_owner) + 1, UUID(n), unit, embedding))
    /\ row_owner' = Append(row_owner, UUID(n))
    /\ row_unit' = Append(row_unit, unit)
    /\ UNCHANGED <<db_service, embedder, database_connections, table_schemas, task, api_key, llm_cache,
                   generation, call, search>>

QueryVectors == {<<1, 0>>, <<1, 1>>, <<-1, 2>>}

\* a direct call of query_vector_store
SearchCall ==
    /\ generation = NoGeneration /\ search = NoSearch
    /\ \E q \in QueryVectors, db_id \in {UUID(n) : n \in QueryConns} \cup {NoneValue},
          limit \in {0, 1, 2, K} :
         search' = [kind |-> "search", query_embedding |-> q, db_id |-> db_id,
                    limit |-> limit,
                    hits |-> query_vector_store(table_embeddings, q, db_id, limit)]
    /\ UNCHANGED <<db_service, embedder, storeVars, api_key, llm_cache, call, generation>>

\* the positive scalars a query vector is multiplied by
Scalars == {2, 20}

\* c * q
Scale(c, q) == [i \in DOMAIN q |-> c * q[i]]

\* two direct calls of query_vector_store on the same rows, with q and with c * q
RescaledSearchCall ==
    /\ generation = NoGeneration /\ search = NoSearch
    /\ \E q \in QueryVectors, c \in Scalars, db_id \in {UUID(n) : n \in QueryConns},
          limit \in {1, K} :
         search' = [kind |-> "rescaled", query_embedding |-> q, scale |-> c,
                    db_id |-> db_id, limit |-> limit,
                    hits |-> query_vector_store(table_embeddings, q, db_id, limit),
                    scaled_hits |-> query_vector_store(table_embeddings, Scale(c, q),
                                                       db_id, limit)]
    /\ UNCHANGED <<db_service, embedder, storeVars, api_key, llm_cache, call, generation>>

\* a direct call of get_table_context for the table of a stored row, with or
\* without its schema name
ContextCall ==
    /\ generation = NoGeneration /\ search = NoSearch
    /\ \E p \in 1..Len(table_embeddings), with_schema \in BOOLEAN :
         LET row == table_embeddings[p]
             unit == row_unit[row.id]
             schema_name == IF with_schema THEN unit.schema_name ELSE NoneValue
         IN  search' = [kind |-> "context", row_id |-> row.id, unit |-> unit,
                        db_id |-> row.db_id, schema_name |-> schema_name,
                        hits |-> get_table_context(table_embeddings, row.db_id,
                                                   unit.table_name, schema_name)]
    /\ UNCHANGED <<db_service, embedder, storeVars, api_key, llm_cache, call, generation>>

\* the result of the call is handed to the caller
ReturnResult ==
    /\ generation # NoGeneration \/ search # NoSearch
    /\ generation' = NoGeneration
    /\ search' = NoSearch
    /\ UNCHANGED <<db_service, embedder, storeVars, api_key, llm_cache, call>>

InitQuery == InitStore /\ InitSynthesizer /\ InitDatabaseService /\ api_key \in BOOLEAN

NextQuery ==
    \/ \E row \in StoredRows : store_vector(row[1], row[2], row[3])
    \/ SearchCall
    \/ RescaledSearchCall
    \/ ContextCall
    \/ \E n \in QueryConns : GenerateQuery(n)
    \/ ReturnResult

SpecQuery == InitQuery /\ [][NextQuery]_vars

(* ------------------- direct calls of the synthesizers ------------------ *)
\* actual_tables_info.split("\n") as QueryService.generate_sql_query builds the
\* text: the header, then per table its line, "  Columns:" and the column
\* lines; tables is a sequence of <<name, columns>>
RECURSIVE TableLines(_)
TableLines(tables) ==
    IF tables = <<>> THEN <<>>
    ELSE <<<<"- ">> \o tables[1][1], <<"  Columns:">>>>
         \o [i \in 1..Len(tables[1][2]) |->
               <<"  - ">> \o tables[1][2][i] \o <<" (INTEGER)">>]
         \o TableLines(Tail(tables))

AvailableTablesHeader == "## Available Tables in Database"

ActualTablesInfo(tables) ==
    <<<<AvailableTablesHeader>>>> \o TableLines(tables) \o <<<<>>>>

\* the text when no connection is available: "".split("\n")
NoTablesInfo == <<<<>>>>

\* the table names _simple_query_generator reads off the lines
RECURSIVE ListedTables(_)
ListedTables(lines) ==
    IF lines = <<>> THEN <<>>
    ELSE (IF StartsWith(Head(lines), <<"- ">>)
          THEN <<Strip(Tail(Head(lines)))>> ELSE <<>>)
         \o ListedTables(Tail(lines))

count == <<"c","o","u","n","t">>
how_many == <<"h","o","w"," ","m","a","n","y">>

\* QueryService._simple_query_generator
simple_query_generator(question, schema_info) ==
    LET tables == ListedTables(schema_info)
        mentioned == {i \in 1..Len(tables) : Contains(Lower(question), Lower(tables[i]))}
        target_table ==
            IF mentioned = {} THEN tables[1]
            ELSE tables[CHOOSE i \in mentioned : \A j \in mentioned : i <= j]
    IN  IF tables = <<>> THEN <<"SELECT 1 /* No tables found in database */">>
        ELSE IF Contains(Lower(question), count) \/ Contains(Lower(question), how_many)
        THEN <<"SELECT COUNT(*) FROM ">> \o target_table
        ELSE <<"SELECT * FROM ">> \o target_table \o <<" LIMIT 10">>

\* utils.query_generator.generate_query: the text returned, or the exception
\* of chain.invoke raised again
generate_query(question, schema_info, outcome) ==
    IF ~(\E i \in 1..Len(schema_info) : schema_info[i] = <<AvailableTablesHeader>>)
    THEN [raised |-> FALSE, invocations |-> 0,
          sql |-> <<"/* No database schema available. Please connect to a database first. */">>]
    ELSE IF outcome.raised
    THEN [raised |-> TRUE, invocations |-> 1, sql |-> <<>>]
    ELSE [raised |-> FALSE, invocations |-> 1, sql |-> Strip(outcome.text)]

Questions == {how_many_orders, list_users, show_ORDERS, hello, count_them}

\* the contexts the synthesizer is called with: what get_table_context returns
\* for the retrieved tables
Contexts ==
    {<<>>, generate_embedding_texts(FactsOrdersUsers),
     generate_embedding_texts(FactsUsers),
     generate_embedding_texts(<<SchemaFact(public, users, id, INTEGER, TRUE),
                                SchemaFact(public, Orders, id, INTEGER, TRUE)>>)}

SchemaInfos ==
    {NoTablesInfo,
     ActualTablesInfo(<<<<orders, <<id, uid>>>>, <<users, <<id>>>>>>),
     ActualTablesInfo(<<<<users, <<id>>>>, <<Orders, <<id>>>>>>),
     ActualTablesInfo(<<>>)}

\* the names of the retrieved tables, in the order of the context
RECURSIVE ContextTables(_)
ContextTables(schema_metadata) ==
    IF schema_metadata = <<>> THEN <<>>
    ELSE LET rest == ContextTables(SubSeq(schema_metadata, 1, Len(schema_metadata) - 1))
             t == schema_metadata[Len(schema_metadata)].table_name
         IN  IF t \in Range(rest) THEN rest ELSE Append(rest, t)

\* the facts the lists given to generate_embedding_texts are made of: plain,
\* primary-key and foreign-key columns, one table name in two schemas, and
\* names that contain a dot
FactUniverse ==
    {SchemaFact(public, users, id, INTEGER, TRUE),
     SchemaFact(public, users, uid, INTEGER, FALSE),
     ForeignKeyFact(public, orders, id, INTEGER, TRUE, users, id),
     ForeignKeyFact(public, orders, uid, INTEGER, FALSE, users, id),
     SchemaFact(sales, users, id, INTEGER, FALSE),
     SchemaFact(a_b, tab_c, id, INTEGER, FALSE),
     SchemaFact(sch_a, tab_b_c, uid, INTEGER, FALSE)}

FactLists == UNION {[1..len -> FactUniverse] : len \in 0..MaxFacts}

\* a direct call of generate_embedding_texts
CallGenerateEmbeddingTexts ==
    /\ call = NoCall
    /\ \E metadata \in FactLists :
         call' = [kind |-> "generate_embedding_texts", metadata |-> metadata,
                  units |-> generate_embedding_texts(metadata)]
    /\ UNCHANGED <<db_service, embedder, storeVars, api_key, llm_cache, generation, search>>

CallGenerateSqlWithLlm ==
    /\ call = NoCall
    /\ \E user_query \in Questions, schema_metadata \in Contexts,
          init_ok \in BOOLEAN, outcome \in LlmOutcomes :
         LET m == get_llm_model(llm_cache, api_key, init_ok)
             names == TableNames(schema_metadata)
         IN  \E first \in (IF names = {} THEN {<<"table">>} ELSE names) :
                 LET r == generate_sql_with_llm(user_query, schema_metadata, m.llm,
                                                api_key, first, outcome)
                 IN  /\ call' = [kind |-> "generate_sql_with_llm",
                                 question |-> user_query,
                                 tables |-> ContextTables(schema_metadata),
                                 llm |-> m.llm /\ api_key,
                                 model_raised |-> r.invocations = 1 /\ outcome.raised,
                                 error |-> outcome.error,
                                 raised |-> FALSE, sql |-> r.sql,
                                 invocations |-> r.invocations]
                     /\ llm_cache' = m.cached
    /\ UNCHANGED <<db_service, embedder, storeVars, api_key, generation, search>>

\* the feedback refine_query_with_llm is called with
Feedbacks == {<<"only one row">>}

\* a direct call of refine_query_with_llm
CallRefineQueryWithLlm ==
    /\ call = NoCall
    /\ \E original_query \in {select_1}, user_feedback \in Feedbacks,
          schema_metadata \in Contexts, init_ok \in BOOLEAN, outcome \in LlmOutcomes :
         LET m == get_llm_model(llm_cache, api_key, init_ok)
             r == refine_query_with_llm(original_query, user_feedback, schema_metadata,
                                        m.llm, api_key, outcome)
         IN  /\ call' = [kind |-> "refine_query_with_llm",
                         original_query |-> original_query,
                         feedback |-> user_feedback,
                         tables |-> ContextTables(schema_metadata),
                         llm |-> m.llm /\ api_key,
                         model_raised |-> r.invocations = 1 /\ outcome.raised,
                         output |-> outcome.text,
                         sql |-> r.sql, invocations |-> r.invocations]
             /\ llm_cache' = m.cached
    /\ UNCHANGED <<db_service, embedder, storeVars, api_key, generation, search>>

CallGenerateQuery ==
    /\ call = NoCall
    /\ \E question \in Questions, schema_info \in SchemaInfos, outcome \in LlmOutcomes :
         LET r == generate_query(question, schema_info, outcome)
         IN  call' = [kind |-> "generate_query", question |-> question,
                      tables |-> ListedTables(schema_info), llm |-> TRUE,
                      model_raised |-> r.invocations = 1 /\ outcome.raised,
                      error |-> outcome.error,
                      raised |-> r.raised, sql |-> r.sql,
                      invocations |-> r.invocations]
    /\ UNCHANGED <<db_service, embedder, storeVars, api_key, llm_cache, generation, search>>

CallSimpleQueryGenerator ==
    /\ call = NoCall
    /\ \E question \in Questions, schema_info \in SchemaInfos :
         call' = [kind |-> "_simple_query_generator", question |-> question,
                  tables |-> ListedTables(schema_info), llm |-> FALSE,
                  model_raised |-> FALSE, error |-> <<>>, raised |-> FALSE,
                  sql |-> simple_query_generator(question, schema_info),
                  invocations |-> 0]
    /\ UNCHANGED <<db_service, embedder, storeVars, api_key, llm_cache, generation, search>>

\* the result of the call is handed to the caller
ReturnCall ==
    /\ call # NoCall
    /\ call' = NoCall
    /\ UNCHANGED <<db_service, embedder, storeVars, api_key, llm_cache, generation, search>>

InitSynth == InitStore /\ InitSynthesizer /\ InitDatabaseService /\ api_key \in BOOLEAN

NextSynth ==
    \/ CallGenerateSqlWithLlm
    \/ CallRefineQueryWithLlm
    \/ CallGenerateQuery
    \/ CallSimpleQueryGenerator
    \/ ReturnCall

SpecSynth == InitSynth /\ [][NextSynth]_vars

\* the Text Unit Builder called with every fact list
NextUnits ==
    \/ CallGenerateEmbeddingTexts
    \/ ReturnCall

SpecUnits == Init /\ [][NextUnits]_vars

(* ---------------------------- embedder model --------------------------- *)
\* one call of generate_embeddings by coroutine c
EmbedCall(c) ==
    /\ embedder.caller[c].calls < MaxCalls
    /\ \E load_ok, encode_ok \in BOOLEAN :
         LET r == generate_embeddings(embedder.model, embedder.loads, load_ok, encode_ok)
         IN  embedder' = [model |-> r.model, loads |-> r.loads,
                          caller |-> [embedder.caller EXCEPT
                                        ![c] = [calls |-> @.calls + 1,
                                                raised |-> r.raised,
                                                used |-> r.used]]]
    /\ UNCHANGED <<db_service, storeVars, api_key, llm_cache, generation, call, search>>

NextEmbed == \E c \in Callers : EmbedCall(c)

SpecEmbed == Init /\ [][NextEmbed]_vars

Next ==
    \E n \in ConnNums :
        \/ \E test_ok, commit_ok \in BOOLEAN : connect_database(n, test_ok, commit_ok)
        \/ \E commit_ok \in BOOLEAN : delete_connection(n, commit_ok)
        \/ process_connection_schema(n)

Spec == Init /\ [][Next]_vars

(* ----------------------- repeated schema processing -------------------- *)
\* process_connection_schema is called again with a connection whose previous
\* run returned "Schema processed successfully"
Reprocess(n) ==
    /\ task[n].pc = "done"
    /\ task[n].result = "Schema processed successfully"
    /\ task[n].run < MaxRuns
    /\ Cardinality({m \in ConnNums : InProgress(m)}) < MaxActive
    /\ task' = [task EXCEPT ![n] = [NoTask EXCEPT !.pc = "extract",
                                                  !.tested = task[n].tested,
                                                  !.created = task[n].created,
                                                  !.deleted = task[n].deleted,
                                                  !.run = task[n].run + 1]]
    /\ UNCHANGED <<db_service, embedder, row_unit, database_connections, table_schemas, table_embeddings,
                   row_owner, api_key, llm_cache, generation, call, search>>

NextRerun ==
    \E n \in ConnNums :
        \/ \E test_ok, commit_ok \in BOOLEAN : connect_database(n, test_ok, commit_ok)
        \/ process_connection_schema(n)
        \/ Reprocess(n)

SpecRerun == Init /\ [][NextRerun]_vars

(* ------------- queries while connections are being processed ----------- *)
\* POST /queries/generate: 404 unless the connection record exists, then the
\* query pipeline on the rows committed so far
QueryConnection(n) ==
    /\ UUID(n) \in database_connections
    /\ GenerateQuery(n)

NextLive ==
    \/ Next
    \/ \E n \in ConnNums : QueryConnection(n)
    \/ ReturnResult

SpecLive == Init /\ [][NextLive]_vars

(* --------------------------- Schema Extractor -------------------------- *)
information_schema == <<"information_schema">>
pg_catalog == <<"pg_catalog">>
pg_toast == <<"pg_toast">>
tab_tables == <<"tables">>
col_table_name == <<"table_name">>
pg_class == <<"pg_class">>
oid == <<"oid">>
VARCHAR == <<"VARCHAR">>

\* the schemas a database keeps for itself
InternalSchemas == {information_schema, pg_catalog, pg_toast}

\* what the introspected database holds: a column, a table, a schema
CatalogColumn(name, type, primary_key, nullable) ==
    [name |-> name, type |-> type, primary_key |-> primary_key, nullable |-> nullable]

CatalogTable(name, columns) == [name |-> name, columns |-> columns]

CatalogSchema(name, tabs) == [name |-> name, tables |-> tabs]

SchemaUniverse ==
    {CatalogSchema(public, <<CatalogTable(users,
          <<CatalogColumn(id, INTEGER, TRUE, FALSE),
            CatalogColumn(uid, INTEGER, FALSE, TRUE)>>)>>),
     CatalogSchema(sales, <<CatalogTable(orders, <<CatalogColumn(id, INTEGER, TRUE, FALSE)>>),
                            CatalogTable(users, <<CatalogColumn(id, INTEGER, TRUE, FALSE)>>)>>),
     CatalogSchema(sch_a, <<>>),
     CatalogSchema(information_schema, <<CatalogTable(tab_tables,
          <<CatalogColumn(col_table_name, VARCHAR, FALSE, TRUE)>>)>>),
     CatalogSchema(pg_catalog, <<CatalogTable(pg_class,
          <<CatalogColumn(oid, INTEGER, FALSE, FALSE)>>)>>),
     CatalogSchema(pg_toast, <<>>)}

\* the databases a connection can point at: schemas of distinct names, in the
\* order the database lists them
Catalogs ==
    {c \in UNION {[1..len -> SchemaUniverse] : len \in 0..MaxSchemas} :
        \A i, j \in DOMAIN c : i # j => c[i].name # c[j].name}

\* engine = await create_engine(connection_string): create_engine returns an
\* Engine, and an Engine cannot be awaited
AwaitCreateEngine ==
    [raised |-> TRUE, error |-> <<"object Engine can't be used in 'await' expression">>]

\* for column in columns: schema_info.append({...})
ColumnFacts(schema, table, columns) ==
    [j \in 1..Len(columns) |->
        SchemaFact(schema, table, columns[j].name, columns[j].type,
                   columns[j].primary_key)]

\* for table in tables
RECURSIVE TableFacts(_, _)
TableFacts(schema, tabs) ==
    IF tabs = <<>> THEN <<>>
    ELSE ColumnFacts(schema, Head(tabs).name, Head(tabs).columns)
             \o TableFacts(schema, Tail(tabs))

\* for schema in schemas
RECURSIVE SchemaFacts(_)
SchemaFacts(schemas) ==
    IF schemas = <<>> THEN <<>>
    ELSE TableFacts(Head(schemas).name, Head(schemas).tables)
             \o SchemaFacts(Tail(schemas))

\* get_schema_metadata on the database `catalog`
get_schema_metadata(catalog) ==
    LET engine == AwaitCreateEngine
    IN  IF engine.raised
        THEN [raised |-> TRUE, error |-> engine.error, schema_info |-> <<>>]
        ELSE [raised |-> FALSE, error |-> <<>>, schema_info |-> SchemaFacts(catalog)]

\* extract_database_schema: get_schema_metadata, an error is logged and raised
\* again
extract_database_schema(catalog) == get_schema_metadata(catalog)

\* schema_info[schema][table_name] of extract_schema
ExtractedTable(table) ==
    [table_name |-> table.name, type |-> <<"BASE TABLE">>,
     columns |-> [j \in 1..Len(table.columns) |->
                     [name |-> table.columns[j].name, type |-> table.columns[j].type,
                      nullable |-> table.columns[j].nullable]],
     foreign_keys |-> <<>>]

\* schema_info of extract_schema, in insertion order
RECURSIVE ExtractedSchemas(_)
ExtractedSchemas(schemas) ==
    IF schemas = <<>> THEN <<>>
    ELSE IF Head(schemas).name \in {pg_catalog, information_schema}
    THEN ExtractedSchemas(Tail(schemas))
    ELSE <<[schema |-> Head(schemas).name,
            tables |-> [j \in 1..Len(Head(schemas).tables) |->
                           ExtractedTable(Head(schemas).tables[j])]]>>
             \o ExtractedSchemas(Tail(schemas))

\* extract_schema on a session bound to the database `catalog`; an error of a
\* statement is logged and raised again
extract_schema(catalog, execute_ok) ==
    IF execute_ok
    THEN [raised |-> FALSE, schema_info |-> ExtractedSchemas(catalog)]
    ELSE [raised |-> TRUE, schema_info |-> <<>>]

\* a direct call of get_schema_metadata
CallGetSchemaMetadata ==
    /\ call = NoCall
    /\ \E catalog \in Catalogs :
         LET r == get_schema_metadata(catalog)
         IN  call' = [kind |-> "get_schema_metadata", catalog |-> catalog,
                      raised |-> r.raised, error |-> r.error,
                      schema_info |-> r.schema_info]
    /\ UNCHANGED <<db_service, embedder, storeVars, api_key, llm_cache, generation, search>>

\* a direct call of extract_schema
CallExtractSchema ==
    /\ call = NoCall
    /\ \E catalog \in Catalogs, execute_ok \in BOOLEAN :
         LET r == extract_schema(catalog, execute_ok)
         IN  call' = [kind |-> "extract_schema", catalog |-> catalog,
                      raised |-> r.raised, schema_info |-> r.schema_info]
    /\ UNCHANGED <<db_service, embedder, storeVars, api_key, llm_cache, generation, search>>

\* the database the n-th connection record points at
TargetCatalog(n) ==
    CASE n % 3 = 1 -> <<CatalogSchema(public, <<CatalogTable(users,
                            <<CatalogColumn(id, INTEGER, TRUE, FALSE),
                              CatalogColumn(uid, INTEGER, FALSE, TRUE)>>)>>)>>
      [] n % 3 = 2 -> <<CatalogSchema(information_schema, <<CatalogTable(tab_tables,
                            <<CatalogColumn(col_table_name, VARCHAR, FALSE, TRUE)>>)>>),
                        CatalogSchema(sales, <<CatalogTable(orders,
                            <<CatalogColumn(id, INTEGER, TRUE, FALSE)>>)>>)>>
      [] OTHER -> <<>>

\* step 1 of process_connection_schema with extract_database_schema as it is
\* written: what it raises is caught by the except branch, what it returns is
\* handed to step 2
ProcessExtractSchema(n) ==
    /\ task[n].pc = "extract"
    /\ LET r == extract_database_schema(TargetCatalog(n))
       IN  IF r.raised
           THEN \E delete_ok \in BOOLEAN : ExceptBranch(n, "extract", 0, delete_ok)
           ELSE /\ task' = [task EXCEPT ![n].pc = "save",
                                        ![n].schema_metadata = r.schema_info]
                /\ UNCHANGED database_connections
    /\ UNCHANGED <<db_service, embedder, row_unit, table_schemas, table_embeddings, row_owner, api_key,
                   llm_cache, generation, call, search>>

NextExtract ==
    \/ \E n \in ConnNums :
          \/ \E test_ok, commit_ok \in BOOLEAN : connect_database(n, test_ok, commit_ok)
          \/ \E commit_ok \in BOOLEAN : delete_connection(n, commit_ok)
          \/ ProcessExtractSchema(n)
    \/ CallGetSchemaMetadata
    \/ CallExtractSchema
    \/ ReturnCall

SpecExtract == Init /\ [][NextExtract]_vars

(* ---------------------- table context of stored units ----------------- *)
\* the rows store_vector is called with before the table contexts are asked for
ContextRows ==
    {<<1, generate_embedding_texts(FactsUsers)[1], <<1, 0>>>>,
     <<1, generate_embedding_texts(FactsUsers)[2], <<1, 0>>>>,
     <<1, generate_embedding_texts(<<SchemaFact(sales, users, id, INTEGER, TRUE)>>)[1],
       <<1, 0>>>>,
     <<1, generate_embedding_texts(FactsOrdersUsers)[1], <<1, 0>>>>,
     <<2, generate_embedding_texts(FactsUsers)[1], <<1, 0>>>>}

\* a direct call of get_table_context with any connection, table and schema
TableContextCall ==
    /\ generation = NoGeneration /\ search = NoSearch
    /\ \E n \in QueryConns, tab \in {users, orders},
          schema_name \in {public, sales, NoneValue, <<>>} :
         search' = [kind |-> "table_context", db_id |-> UUID(n), table_name |-> tab,
                    schema_name |-> schema_name,
                    hits |-> get_table_context(table_embeddings, UUID(n), tab,
                                               schema_name)]
    /\ UNCHANGED <<db_service, embedder, storeVars, api_key, llm_cache, call, generation>>

NextContext ==
    \/ \E row \in ContextRows : store_vector(row[1], row[2], row[3])
    \/ TableContextCall
    \/ ReturnResult

SpecContext == InitQuery /\ [][NextContext]_vars

(* -------------------- saving the facts of an extraction ---------------- *)
\* the keys save_schema_metadata reads with item[...]; the others are read
\* with item.get
RequiredKeys == {"schema_name", "table_name", "column_name", "data_type"}

Complete(item) == RequiredKeys \subseteq DOMAIN item

\* a fact whose data_type is missing
FactWithoutType(s, t, c) ==
    [schema_name |-> s, table_name |-> t, column_name |-> c,
     is_primary_key |-> FALSE, is_foreign_key |-> FALSE,
     foreign_table |-> NoneValue, foreign_column |-> NoneValue]

\* the lists of dicts save_schema_metadata is given
SaveLists ==
    {FactsUsers, FactsOrdersUsers,
     <<FactWithoutType(public, users, uid)>>,
     <<SchemaFact(public, users, id, INTEGER, TRUE), FactWithoutType(public, users, uid)>>,
     <<SchemaFact(public, orders, id, INTEGER, TRUE),
       SchemaFact(public, users, id, INTEGER, TRUE),
       FactWithoutType(public, users, uid)>>}

\* the loop of save_schema_metadata: the records added to the session up to
\* the first item that lacks a key
RECURSIVE AddedRecords(_, _)
AddedRecords(db_id, metadata) ==
    IF metadata = <<>> \/ ~Complete(Head(metadata)) THEN <<>>
    ELSE <<TableSchema(db_id, Head(metadata))>> \o AddedRecords(db_id, Tail(metadata))

\* save_schema_metadata on a session without pending records: it raises
\* KeyError in the loop, leaving the records added so far pending in the
\* session, or reaches db_session.commit(), which stores all the records or
\* raises and rolls the session back
save_schema_metadata(rows, db_id, metadata, commit_ok) ==
    LET added == AddedRecords(db_id, metadata)
    IN  IF Len(added) < Len(metadata)
        THEN [raised |-> TRUE, rows |-> rows, pending |-> added]
        ELSE IF commit_ok
        THEN [raised |-> FALSE, rows |-> rows \o added, pending |-> <<>>]
        ELSE [raised |-> TRUE, rows |-> rows, pending |-> <<>>]

\* table_schemas after the except branch of process_connection_schema:
\* db.commit() flushes the records pending in the session together with the
\* deletion; when the delete or the commit raises, db.rollback() drops them
RollbackSchemas(rows, pending, delete_ok) ==
    IF delete_ok THEN rows \o pending ELSE rows

\* step 1 for a connection whose extraction returns one of the lists
ProcessExtractList(n) ==
    /\ task[n].pc = "extract"
    /\ \E metadata \in SaveLists :
         task' = [task EXCEPT ![n].pc = "save", ![n].schema_metadata = metadata]
    /\ UNCHANGED <<db_service, embedder, row_unit, database_connections, table_schemas, table_embeddings,
                   row_owner, api_key, llm_cache, generation, call, search>>

\* steps 2 and 3 on the session of the request
ProcessSaveRecords(n) ==
    /\ task[n].pc = "save"
    /\ \E commit_ok, delete_ok \in BOOLEAN :
         LET r == save_schema_metadata(table_schemas, UUID(n), task[n].schema_metadata,
                                       commit_ok)
         IN  IF r.raised
             THEN /\ ExceptBranch(n, "save", Len(r.pending) + 1, delete_ok)
                  /\ table_schemas' = RollbackSchemas(r.rows, r.pending, delete_ok)
             ELSE /\ table_schemas' = r.rows
                  /\ task' = [task EXCEPT
                                ![n].pc = "embed",
                                ![n].embedding_texts =
                                    generate_embedding_texts(task[n].schema_metadata),
                                ![n].i = 1,
                                ![n].batch = "running"]
                  /\ UNCHANGED database_connections
    /\ UNCHANGED <<db_service, embedder, row_unit, table_embeddings, row_owner, api_key, llm_cache,
                   generation, call, search>>

NextSave ==
    \E n \in ConnNums :
        \/ \E test_ok, commit_ok \in BOOLEAN : connect_database(n, test_ok, commit_ok)
        \/ ProcessExtractList(n)
        \/ ProcessSaveRecords(n)
        \/ ProcessEmbedUnit(n)
        \/ ProcessReturn(n)

SpecSave == Init /\ [][NextSave]_vars

(* ------------- reads while embedding records are being stored --------- *)
\* the TableEmbedding objects added to a session and not committed: no id yet
PendingRecords ==
    LET waiting == SelectSeq([n \in 1..MaxConns |-> n],
                             LAMBDA n : task[n].pc = "commit")
    IN  [j \in 1..Len(waiting) |->
            TableEmbedding(0, UUID(waiting[j]),
                           task[waiting[j]].embedding_texts[task[waiting[j]].i],
                           task[waiting[j]].pending)]

\* faulty variant: a read that also yields the records other sessions hold
ReadRows_Dirty(rows, pending) == rows \o pending

\* the rows of table_embeddings a SELECT of another session can yield: the
\* committed ones (each request and each task has a session of its own,
\* autoflush off; add sends nothing before commit)
ReadRows(rows, pending) == rows

\* generate_embeddings, then db_session.add(embedding_record)
EmbedAdd(n) ==
    /\ task[n].pc = "embed"
    /\ task[n].i <= Len(task[n].embedding_texts)
    /\ \/ \E delete_ok \in BOOLEAN : ExceptBranch(n, "embed", task[n].i, delete_ok)
       \/ /\ \E v \in EmbedVectors :
                task' = [task EXCEPT ![n] = [pending |-> v] @@ [@ EXCEPT !.pc = "commit"]]
          /\ UNCHANGED database_connections
    /\ UNCHANGED <<db_service, embedder, table_schemas, table_embeddings, row_owner,
                   row_unit, api_key, llm_cache, generation, call, search>>

\* db_session.commit() of store_embeddings: the record is stored, or the
\* commit raises and the session drops it
EmbedCommit(n) ==
    /\ task[n].pc = "commit"
    /\ LET t == [f \in DOMAIN NoTask |-> task[n][f]]
       IN  \/ /\ \E delete_ok \in BOOLEAN :
                    /\ database_connections' =
                           RollbackConnections(database_connections, UUID(n), delete_ok)
                    /\ task' = [task EXCEPT ![n] =
                                   [t EXCEPT !.pc = "done", !.failed_stage = "embed",
                                             !.failed_unit = t.i, !.batch = "raised",
                                             !.delete_raised = ~delete_ok,
                                             !.result = "Error processing schema"]]
              /\ UNCHANGED <<table_embeddings, row_owner, row_unit>>
           \/ /\ table_embeddings' = store_embeddings(table_embeddings,
                     Len(row_owner) + 1, UUID(n), t.embedding_texts[t.i],
                     task[n].pending)
              /\ row_owner' = Append(row_owner, UUID(n))
              /\ row_unit' = Append(row_unit, t.embedding_texts[t.i])
              /\ task' = [task EXCEPT ![n] =
                             [t EXCEPT !.pc = "embed", !.i = @ + 1,
                                       !.stored = Append(@, Len(row_owner) + 1)]]
              /\ UNCHANGED database_connections
    /\ UNCHANGED <<db_service, embedder, table_schemas, api_key, llm_cache, generation,
                   call, search>>

\* query_vector_store, db_session.execute: the SELECT of a retrieval for
\* connection n is run; committed is the set of ids stored by then
ReadBegin(n) ==
    /\ search = NoSearch
    /\ \E limit \in {1, K} :
         search' = [kind |-> "reading", db_id |-> UUID(n), limit |-> limit,
                    committed |-> {table_embeddings[i].id :
                                       i \in 1..Len(table_embeddings)},
                    pending |-> Len(PendingRecords),
                    rows |-> ReadRows(table_embeddings, PendingRecords)]
    /\ UNCHANGED <<db_service, embedder, storeVars, api_key, llm_cache, generation, call>>

\* query_vector_store, from the loop over the result to the return
ReadFinish ==
    /\ search.kind = "reading"
    /\ search' = [kind |-> "read", db_id |-> search.db_id, limit |-> search.limit,
                  committed |-> search.committed, pending |-> search.pending,
                  hits |-> query_vector_store(search.rows, <<1, 0>>, search.db_id,
                                              search.limit)]
    /\ UNCHANGED <<db_service, embedder, storeVars, api_key, llm_cache, generation, call>>

NextRead ==
    \/ \E n \in ConnNums :
        \/ \E test_ok, commit_ok \in BOOLEAN : connect_database(n, test_ok, commit_ok)
        \/ ProcessExtract(n)
        \/ ProcessSave(n)
        \/ EmbedAdd(n)
        \/ EmbedCommit(n)
        \/ ProcessReturn(n)
        \/ ReadBegin(n)
    \/ ReadFinish
    \/ ReturnResult

SpecRead == Init /\ [][NextRead]_vars

(* ---------------------------- DatabaseService -------------------------- *)
mysql == <<"m","y","s","q","l">>
MySQL == <<"M","y","S","Q","L">>
postgres == <<"p","o","s","t","g","r","e","s">>
oracle == <<"o","r","a","c","l","e">>
shop == <<"s","h","o","p">>
crm == <<"c","r","m">>

\* the DatabaseConnectionRequest objects connect is called with
Requests ==
    {[db_type |-> t, db_name |-> <<"main">>, database |-> d] :
        t \in {mysql, MySQL, postgres, oracle}, d \in {shop, crm}}

\* connection_id = f"{request.db_type}_{request.database}"
ConnectionId(request) == request.db_type \o <<"_">> \o request.database

\* the entry of self.connections
ConnectionEntry(request) ==
    [connection_id |-> ConnectionId(request), db_type |-> request.db_type,
     db_name |-> request.db_name, database |-> request.database]

\* the connection string of the engine
ConnectionString(request) ==
    (IF Lower(request.db_type) = mysql THEN <<"mysql+pymysql://">>
     ELSE <<"postgresql://">>) \o <<"username:password@host:port/">> \o request.database

\* d[key] = value
Put(d, key, value) ==
    [k \in DOMAIN d \cup {key} |-> IF k = key THEN value ELSE d[k]]

\* faulty variant: the connection is registered before its engine is tested
connect_RegisterFirst(connections, engines, request, test_ok) ==
    IF Lower(request.db_type) \notin {mysql, postgres}
    THEN [raised |-> TRUE, error |-> "Unsupported database type",
          connections |-> connections, engines |-> engines]
    ELSE IF ~test_ok
    THEN [raised |-> TRUE, error |-> "connection test failed",
          connections |-> Put(connections, ConnectionId(request), ConnectionEntry(request)),
          engines |-> Put(engines, ConnectionId(request), ConnectionString(request))]
    ELSE [raised |-> FALSE, error |-> "",
          connections |-> Put(connections, ConnectionId(request), ConnectionEntry(request)),
          engines |-> Put(engines, ConnectionId(request), ConnectionString(request))]

\* DatabaseService.connect: test_ok tells whether create_engine and the test
\* query on the new engine succeed; the registries afterwards
connect(connections, engines, request, test_ok) ==
    IF Lower(request.db_type) \notin {mysql, postgres}
    THEN [raised |-> TRUE, error |-> "Unsupported database type",
          connections |-> connections, engines |-> engines]
    ELSE IF ~test_ok
    THEN [raised |-> TRUE, error |-> "connection test failed",
          connections |-> connections, engines |-> engines]
    ELSE [raised |-> FALSE, error |-> "",
          connections |-> Put(connections, ConnectionId(request), ConnectionEntry(request)),
          engines |-> Put(engines, ConnectionId(request), ConnectionString(request))]

\* one call of connect on the singleton
Connect ==
    \E request \in Requests, test_ok \in BOOLEAN :
        LET r == connect(db_service.connections, db_service.engines, request, test_ok)
        IN  /\ db_service' = [connections |-> r.connections, engines |-> r.engines,
                              last |-> [kind |-> "connect", request |-> request,
                                        raised |-> r.raised, error |-> r.error,
                                        connections |-> db_service.connections,
                                        engines |-> db_service.engines]]
            /\ UNCHANGED <<storeVars, api_key, llm_cache, generation, call, search, embedder>>

\* DatabaseService(): the registries after _load_persistent_connections, with
\* or without a file of an earlier run; engines are never loaded
InitService ==
    /\ InitStore /\ InitSynthesizer /\ api_key = FALSE
    /\ \E loaded \in SUBSET {[db_type |-> mysql, db_name |-> <<"main">>, database |-> shop]} :
         db_service = [connections |-> [cid \in {ConnectionId(q) : q \in loaded} |->
                                           ConnectionEntry(CHOOSE q \in loaded :
                                                               ConnectionId(q) = cid)],
                       engines |-> NoRegistry,
                       last |-> [kind |-> "none"]]

NextService == Connect

SpecService == InitService /\ [][NextService]_vars

(* ------------------------- direct store operations --------------------- *)
\* the length of the vectors of the embedding model of get_embedding_model,
\* scaled down
EmbeddingDimension == 2

\* the embedding arguments of the store operations
StoreVectors == {<<1>>, <<1, 0>>, <<0, 1>>}

\* the text units of the store operations
StoreUnits == {generate_embedding_texts(FactsUsers)[1], generate_embedding_texts(FactsUsers)[2]}

\* a direct call of store_embeddings: one more row, committed
StoreEmbeddings(n, unit, embedding) ==
    /\ Len(table_embeddings) < MaxRows
    /\ table_embeddings' = store_embeddings(table_embeddings, Len(row_owner) + 1,
                                            UUID(n), unit, embedding)
    /\ row_owner' = Append(row_owner, UUID(n))
    /\ row_unit' = Append(row_unit, unit)
    /\ UNCHANGED <<db_service, embedder, database_connections, table_schemas, task, api_key, llm_cache,
                   generation, call, search>>

NextStore ==
    \E n \in ConnNums, unit \in StoreUnits, embedding \in StoreVectors :
        \/ store_vector(n, unit, embedding)
        \/ StoreEmbeddings(n, unit, embedding)

SpecStore == Init /\ [][NextStore]_vars

(* ======================= schema processing claims ===================== *)
Failed(n) == task[n].pc = "done" /\ task[n].failed_stage # ""


RowsOf(schemas, embeddings, db_id) ==
    Len(SelectSeq(schemas, LAMBDA row : row.db_id = db_id))
        + Len(SelectSeq(embeddings, LAMBDA row : row.db_id = db_id))

\* C2: whenever a connection record is deleted, by delete_connection or by the
\* rollback of process_connection_schema, then once the deleting operation has
\* finished no row of table_schemas and no row of table_embeddings carries that
\* connection's db_id.
C2_DeleteLeavesNoRows ==
    [][\A n \in ConnNums :
          (UUID(n) \in database_connections /\ UUID(n) \notin database_connections')
              => RowsOf(table_schemas', table_embeddings', UUID(n)) = 0]_vars

\* C3: in a batch every unit succeeds or fails on its own: the batch returns
\* to its caller, and every unit other than one whose embedding raised has been
\* embedded and stored.
C3_UnitsIndependent ==
    \A n \in ConnNums :
        (task[n].pc = "done" /\ task[n].batch # "") =>
            /\ task[n].batch = "returned"
            /\ Len(task[n].stored) =
                   Cardinality({i \in 1..Len(task[n].embedding_texts) :
                                   i # task[n].failed_unit})

\* C4: when the embedding of one unit fails during schema processing, the
\* unit is skipped, the connection is not rolled back and the units after it
\* are stored.
C4_EmbedFailureIsolated ==
    \A n \in ConnNums :
        (task[n].pc = "done" /\ task[n].failed_unit # 0) =>
            /\ task[n].result = "Schema processed successfully"
            /\ Len(task[n].stored) = Len(task[n].embedding_texts) - 1

(* ========================== synthesizer claims ======================== *)
\* C5: when the language-model invocation raises, SQL generation raises no
\* exception to its caller and returns a text that starts with the SQL comment
\* marker and contains the error text and the original question.
C5_ModelErrorBecomesComment ==
    (call.kind # "none" /\ call.model_raised) =>
        /\ ~call.raised
        /\ StartsWith(call.sql, CommentMarker)
        /\ Contains(call.sql, call.error)
        /\ Contains(call.sql, call.question)

\* C6: given an empty context the synthesizer returns a text containing
\* "No relevant schema found" and invokes no model, in the query pipeline when
\* retrieval is empty and when it is called directly with an empty context.
C6_EmptyContextSentinel ==
    /\ (generation.kind = "search" /\ ~generation.embed_raised
           /\ generation.retrieved = 0) =>
           /\ Contains(generation.sql, <<"No relevant schema found">>)
           /\ generation.invocations = 0
    /\ (call.kind = "generate_sql_with_llm" /\ call.tables = <<>>) =>
           /\ Contains(call.sql, <<"No relevant schema found">>)
           /\ call.invocations = 0

\* the texts the deterministic fallback may return for a question and the
\* retrieved tables: the target is a table whose name occurs in the question
\* (any case), otherwise the first table
FallbackTargets(question, tables) ==
    LET mentioned == {t \in Range(tables) : Contains(Lower(question), Lower(t))}
    IN  IF mentioned = {} THEN {tables[1]} ELSE mentioned

FallbackTexts(question, tables) ==
    {IF Contains(Lower(question), count) \/ Contains(Lower(question), how_many)
     THEN <<"SELECT COUNT(*) FROM ">> \o t
     ELSE <<"SELECT * FROM ">> \o t \o <<" LIMIT 10">> :
        t \in FallbackTargets(question, tables)}

\* C8: when no language model is configured and the context is non-empty,
\* generation returns the deterministic fallback: SELECT COUNT(*) FROM target
\* when the question contains "count" or "how many", SELECT * FROM target
\* LIMIT 10 otherwise, the target being a retrieved table named in the
\* question, or else the first retrieved table.
C8_DeterministicFallback ==
    (call.kind \in {"generate_sql_with_llm", "_simple_query_generator"}
       /\ ~call.llm /\ call.tables # <<>>) =>
        call.sql \in FallbackTexts(call.question, call.tables)

(* =========================== retrieval claims ========================= *)
\* C7: a generation request that reaches the synthesizer with its non-empty
\* context invokes the language model exactly once when a model is configured
\* (the key is set and the client is cached or can be constructed) and not at
\* all otherwise; no request invokes it more than once.
C7_ModelInvokedOnce ==
    generation.kind = "search" =>
        /\ generation.invocations <= 1
        /\ generation.synthesized =>
               /\ generation.table_contexts # <<>>
               /\ generation.invocations =
                      (IF generation.key_set
                            /\ (generation.was_cached \/ generation.init_ok)
                       THEN 1 ELSE 0)

\* a request with a configured model, answered from a non-empty context, whose
\* single model invocation raised
C7_Witness ==
    /\ generation.kind = "search" /\ generation.synthesized
    /\ generation.key_set /\ generation.invocations = 1
    /\ generation.retrieved > 0
    /\ StartsWith(generation.sql, CommentMarker)

\* the positions of the rows of table_embeddings in the scope of a search
Scope(db_id) ==
    {p \in 1..Len(table_embeddings) :
        db_id # NoneValue => table_embeddings[p].db_id = db_id}

RowVector(p) == JsonLoads(table_embeddings[p].embedding_json)

\* row p ranks before row r for query q: it is more similar, or as similar
\* and stored earlier
RanksBefore(p, r, q) ==
    \/ SimGreater(RowVector(p), RowVector(r), q)
    \/ /\ ~SimGreater(RowVector(r), RowVector(p), q)
       /\ p < r

Min(a, b) == IF a < b THEN a ELSE b

\* C9: search returns the records of the scope sorted by cosine similarity to
\* the query vector, descending, records of equal similarity in storage order,
\* truncated to the first `limit`: the j-th hit is the row of the scope that
\* exactly j-1 rows of the scope rank before.
C9_SearchRanking ==
    search.kind = "search" =>
        LET P == Scope(search.db_id)
        IN  /\ Len(search.hits) = Min(search.limit, Cardinality(P))
            /\ \A j \in 1..Len(search.hits) :
                   \E p \in P :
                       /\ table_embeddings[p].id = search.hits[j].id
                       /\ table_embeddings[p].description = search.hits[j].description
                       /\ RowVector(p) = search.hits[j].embedding
                       /\ Cardinality({r \in P : RanksBefore(r, p, search.query_embedding)})
                              = j - 1

\* a search truncated to 2 of 3 rows of its scope, whose two hits are equally
\* similar to the query and differ from each other
C9_Witness ==
    /\ search.kind = "search" /\ search.limit = 2 /\ Len(search.hits) = 2
    /\ Cardinality(Scope(search.db_id)) = 3
    /\ ~SimGreater(search.hits[1].embedding, search.hits[2].embedding,
                   search.query_embedding)
    /\ search.hits[1].embedding # search.hits[2].embedding

\* C10: every hit of a search made for a connection, and every context line
\* used to answer a query for that connection, comes from a row whose db_id is
\* that connection.
C10_HitsScoped ==
    /\ generation.kind = "search" =>
           /\ \A j \in 1..Len(generation.relevant_schema) :
                  row_owner[generation.relevant_schema[j].id] = generation.db_id
           /\ \A j \in 1..Len(generation.table_contexts) :
                  row_owner[generation.table_contexts[j].id] = generation.db_id
    /\ (search.kind = "search" /\ search.db_id # NoneValue) =>
           \A j \in 1..Len(search.hits) :
               row_owner[search.hits[j].id] = search.db_id

\* a query answered from hits of its connection while the store also holds a
\* row of another connection
C10_Witness ==
    /\ generation.kind = "search"
    /\ generation.relevant_schema # <<>> /\ generation.table_contexts # <<>>
    /\ \E p \in 1..Len(table_embeddings) :
           table_embeddings[p].db_id # generation.db_id

(* ======================= connection creation claims =================== *)
\* C11: create_db_connection persists a connection record only after the
\* connectivity test has succeeded; when the test fails it returns no
\* connection with a failure message and leaves the connection repository
\* unchanged.
C11_PersistAfterTest ==
    [][\A n \in ConnNums :
          (task[n].pc = "none" /\ task'[n].pc # "none") =>
              /\ UUID(n) \in database_connections' => task'[n].tested
              /\ ~task'[n].tested =>
                     /\ task'[n].pc = "refused"
                     /\ task'[n].created = "Failed to connect to database"
                     /\ database_connections' = database_connections]_vars

\* a connection was refused because its test failed, while the repository
\* holds the record of another connection
C11_Witness ==
    \E n, m \in ConnNums :
        /\ task[n].pc = "refused" /\ ~task[n].tested
        /\ UUID(n) \notin database_connections
        /\ UUID(m) \in database_connections

C14_ModelLoadedOnce ==
    /\ embedder.loads <= 1
    /\ \A c \in Callers :
           /\ embedder.caller[c].used \in {0, embedder.model}
           /\ (embedder.caller[c].calls > 0 /\ ~embedder.caller[c].raised) =>
                  (embedder.caller[c].used = 1 /\ embedder.model = 1)

\* every caller has had its last call answered by the one instance, and one
\* of them has called twice
C14_Witness ==
    /\ embedder.loads = 1
    /\ \A c \in Callers :
           embedder.caller[c].calls > 0 /\ ~embedder.caller[c].raised
    /\ \E c \in Callers : embedder.caller[c].calls = MaxCalls

(* ======================== repeated processing claims ================== *)
\* the rows of table_embeddings that store `unit` for db_id
UnitRows(db_id, unit) ==
    {p \in 1..Len(table_embeddings) :
        /\ table_embeddings[p].db_id = db_id
        /\ table_embeddings[p].schema_name = unit.schema_name
        /\ table_embeddings[p].table_name = unit.table_name
        /\ table_embeddings[p].column_name = unit.column_name
        /\ table_embeddings[p].description = unit.description}

\* C15: schema processing appends and never deduplicates: after two runs on
\* the same connection with an unchanged schema, table_embeddings holds for
\* that db_id twice as many rows as after one run, every text unit twice.
C15_TwoRunsDuplicate ==
    \A n \in ConnNums :
        (task[n].run = 2 /\ task[n].pc = "done"
           /\ task[n].result = "Schema processed successfully") =>
            LET units == generate_embedding_texts(TargetSchema(n))
            IN  /\ Len(SelectSeq(table_embeddings, LAMBDA row : row.db_id = UUID(n)))
                       = 2 * Len(units)
                /\ \A j \in 1..Len(units) :
                       Cardinality(UnitRows(UUID(n), units[j])) = 2

\* two runs on a connection with two tables have finished: 8 rows for 4 units
C15_Witness ==
    \E n \in ConnNums :
        /\ task[n].run = 2 /\ task[n].pc = "done"
        /\ task[n].result = "Schema processed successfully"
        /\ Len(generate_embedding_texts(TargetSchema(n))) = 4
        /\ Len(SelectSeq(table_embeddings, LAMBDA row : row.db_id = UUID(n))) = 8

(* ============================ round-trip claims ======================= *)
\* C16: after a text unit is stored with its embedding for a connection,
\* get_table_context for the unit's table (with or without its schema) in that
\* connection returns a record whose description equals the unit's
\* description and whose schema, table and column equal the unit's.
C16_StoreContextRoundTrip ==
    search.kind = "context" =>
        \E j \in 1..Len(search.hits) :
            /\ search.hits[j].id = search.row_id
            /\ search.hits[j].description = search.unit.description
            /\ search.hits[j].schema_name = search.unit.schema_name
            /\ search.hits[j].table_name = search.unit.table_name
            /\ search.hits[j].column_name = search.unit.column_name

\* the context of a table unit (no column) was expanded by schema and table
\* name while the store holds rows of another connection, and the unit came
\* back among the rows of its table
C16_Witness ==
    /\ search.kind = "context"
    /\ search.unit.column_name = NoneValue
    /\ search.schema_name # NoneValue
    /\ \E j \in 1..Len(search.hits) :
           /\ search.hits[j].id = search.row_id
           /\ search.hits[j].description = search.unit.description
    /\ \E p \in 1..Len(table_embeddings) : table_embeddings[p].db_id # search.db_id

(* ========================= Text Unit Builder claims =================== *)
PairOf(item) == <<item.schema_name, item.table_name>>

\* C17: for every list of SchemaFacts the Text Unit Builder produces exactly
\* #tables + #facts units, #tables being the number of distinct
\* (schema_name, table_name) pairs in the list.
C17_UnitCount ==
    call.kind = "generate_embedding_texts" =>
        Len(call.units) =
            Cardinality({PairOf(call.metadata[i]) : i \in 1..Len(call.metadata)})
                + Len(call.metadata)

\* the distinct (schema_name, table_name) pairs of a list, in first-seen order
RECURSIVE FirstSeenPairs(_)
FirstSeenPairs(metadata) ==
    IF metadata = <<>> THEN <<>>
    ELSE LET rest == FirstSeenPairs(SubSeq(metadata, 1, Len(metadata) - 1))
             pair == PairOf(metadata[Len(metadata)])
         IN  IF pair \in Range(rest) THEN rest ELSE Append(rest, pair)

\* the group of one pair: schema, table and column of its table unit (no
\* column, the column names of the pair's facts in fact order) and of its
\* column units
GroupOf(metadata, pair) ==
    LET facts == SelectSeq(metadata, LAMBDA item : PairOf(item) = pair)
    IN  <<[schema_name |-> pair[1], table_name |-> pair[2], column_name |-> NoneValue,
           columns |-> [i \in 1..Len(facts) |-> facts[i].column_name]]>>
        \o [i \in 1..Len(facts) |->
              [schema_name |-> pair[1], table_name |-> pair[2],
               column_name |-> facts[i].column_name, columns |-> <<>>]]

RECURSIVE GroupsOf(_, _)
GroupsOf(metadata, pairs) ==
    IF pairs = <<>> THEN <<>>
    ELSE GroupOf(metadata, Head(pairs)) \o GroupsOf(metadata, Tail(pairs))

\* the text after " with columns: " in a table unit's description
ColumnsListed(description) ==
    LET p == CHOOSE i \in 1..Len(description) : description[i] = " with columns: "
    IN  SubSeq(description, p + 1, Len(description))

\* C18: the groups are emitted in the order in which each (schema_name,
\* table_name) pair first appears in the fact list, also when a table's facts
\* are not contiguous; in a group the table unit comes first and lists the
\* column names in fact order, then come the table's column units in fact
\* order.
C18_FirstSeenOrder ==
    call.kind = "generate_embedding_texts" =>
        LET expected == GroupsOf(call.metadata, FirstSeenPairs(call.metadata))
        IN  /\ Len(call.units) = Len(expected)
            /\ \A j \in 1..Len(expected) :
                   /\ call.units[j].schema_name = expected[j].schema_name
                   /\ call.units[j].table_name = expected[j].table_name
                   /\ call.units[j].column_name = expected[j].column_name
                   /\ expected[j].column_name = NoneValue =>
                          ColumnsListed(call.units[j].description)
                              = JoinComma(expected[j].columns)

\* the fact a column unit was built from: the units of the list are its table
\* units and, in fact order within each group, one column unit per fact
PkSuffix(item) == IF item.is_primary_key THEN <<" (Primary Key)">> ELSE <<>>

FkSuffix(item) ==
    IF item.is_foreign_key
    THEN <<" (Foreign Key to ">> \o item.foreign_table \o <<".">>
             \o item.foreign_column \o <<")">>
    ELSE <<>>

\* the column units that follow the table unit at position j, up to the next
\* table unit
GroupColumns(units, j) ==
    LET last == CHOOSE e \in j..Len(units) :
                    /\ \A i \in (j + 1)..e : units[i].column_name # NoneValue
                    /\ e = Len(units) \/ units[e + 1].column_name = NoneValue
    IN  [i \in 1..(last - j) |-> units[j + i].column_name]

\* C19: a column unit's description is "Column {column} of type {type} in
\* table {table}", then " (Primary Key)" exactly when the fact is a primary
\* key, then " (Foreign Key to {foreign_table}.{foreign_column})" exactly
\* when it is a foreign key; a table unit's description is "Table {table} in
\* schema {schema} with columns: " and the comma-joined column names.
C19_Descriptions ==
    call.kind = "generate_embedding_texts" =>
        /\ \A i \in 1..Len(call.metadata) :
               LET item == call.metadata[i]
               IN  \E j \in 1..Len(call.units) :
                       /\ call.units[j].schema_name = item.schema_name
                       /\ call.units[j].table_name = item.table_name
                       /\ call.units[j].column_name = item.column_name
                       /\ call.units[j].description =
                              <<"Column ">> \o item.column_name \o <<" of type ">>
                                  \o item.data_type \o <<" in table ">>
                                  \o item.table_name \o PkSuffix(item) \o FkSuffix(item)
        /\ \A j \in 1..Len(call.units) :
               LET unit == call.units[j]
               IN  IF unit.column_name = NoneValue
                   THEN unit.description =
                            <<"Table ">> \o unit.table_name \o <<" in schema ">>
                                \o unit.schema_name \o <<" with columns: ">>
                                \o JoinComma(GroupColumns(call.units, j))
                   ELSE \E i \in 1..Len(call.metadata) :
                            /\ PairOf(call.metadata[i]) = PairOf(unit)
                            /\ call.metadata[i].column_name = unit.column_name
                            /\ StartsWith(unit.description,
                                          <<"Column ">> \o unit.column_name \o <<" of type ">>)

\* the units of a list with a column that is both primary and foreign key,
\* in a table of two columns, have been built
C19_Witness ==
    /\ call.kind = "generate_embedding_texts"
    /\ \E j \in 1..Len(call.units) :
           /\ Contains(call.units[j].description, <<" (Primary Key)", " (Foreign Key to ">>)
    /\ \E j \in 1..Len(call.units) :
           /\ call.units[j].column_name = NoneValue
           /\ Contains(call.units[j].description, <<", ">>)

\* C20: whenever retrieval returned hits for a query, the answer carries the
\* SQL text, and its table set is exactly the set of distinct schema.table
\* identities of those hits, whatever the names are and whether or not an
\* LLM synthesized the SQL.
C20_TablesOfHits ==
    (generation.kind = "search" /\ generation.retrieved > 0) =>
        /\ generation.sql # <<>>
        /\ relevant_tables(generation.relevant_schema) = generation.hit_tables
        /\ generation.hit_tables # {}

(* ======================== schema extractor claims ====================== *)
\* the facts of every column of every table of the schemas that are not
\* internal
VisibleFacts(catalog) ==
    SchemaFacts(SelectSeq(catalog, LAMBDA s : s.name \notin InternalSchemas))

\* C21: the fact list of the Schema Extractor holds one fact for every column
\* of every visible table and no fact of an internal schema; the schemas
\* extract_schema reports hold no internal schema either.
C21_FactsOfVisibleTables ==
    /\ call.kind = "get_schema_metadata" =>
           /\ ~call.raised
           /\ call.schema_info = VisibleFacts(call.catalog)
    /\ (call.kind = "extract_schema" /\ ~call.raised) =>
           \A i \in 1..Len(call.schema_info) :
               call.schema_info[i].schema \notin InternalSchemas

\* C27: when the credentials of a connection are valid and its database can
\* be introspected, process_connection_schema ends reporting success, the
\* connection record still exists, and the store holds for the connection
\* one table_schemas row per extracted column and one table_embeddings row
\* per text unit (#tables + #facts).
C27_ValidConnectionProcessed ==
    \A n \in ConnNums :
        (task[n].pc = "done" /\ task[n].tested /\ task[n].deleted = "") =>
            LET facts == SchemaFacts(TargetCatalog(n))
                db_id == UUID(n)
            IN  /\ task[n].result = "Schema processed successfully"
                /\ db_id \in database_connections
                /\ Cardinality({i \in DOMAIN table_schemas :
                                   table_schemas[i].db_id = db_id}) = Len(facts)
                /\ Cardinality({i \in DOMAIN table_embeddings :
                                   table_embeddings[i].db_id = db_id})
                       = Cardinality({PairOf(facts[i]) : i \in DOMAIN facts}) + Len(facts)

(* ========================= embedding store claims ====================== *)
\* the embedding of a stored row
Embedding(row) == JsonLoads(row.embedding_json)

\* C22: after any sequence of store operations every record holds an
\* embedding of the dimension of the embedding model, so that no two records
\* of one db_id differ in the length of their embeddings.
C22_OneDimension ==
    /\ \A i \in DOMAIN table_embeddings :
           Len(Embedding(table_embeddings[i])) = EmbeddingDimension
    /\ \A i, j \in DOMAIN table_embeddings :
           table_embeddings[i].db_id = table_embeddings[j].db_id =>
               Len(Embedding(table_embeddings[i])) = Len(Embedding(table_embeddings[j]))

(* ========================== synthesizer claims ========================= *)
\* C23: on the model path (a model is available and its call returned) the
\* SQL text returned by generate_sql_with_llm and by refine_query_with_llm
\* holds no code-fence marker.
C23_NoFenceReturned ==
    (/\ call.kind \in {"generate_sql_with_llm", "refine_query_with_llm"}
     /\ call.llm /\ ~call.model_raised) =>
        ~Contains(call.sql, Fence)

(* ============================ retriever claims ========================= *)
\* the ids of hits, in their order
HitIds(hits) == [i \in 1..Len(hits) |-> hits[i].id]

\* C24: over the same stored records, the hits of a search with the non-zero
\* query vector q and of a search with c * q, c positive, are the same
\* records in the same order.
C24_RescalingKeepsOrder ==
    (search.kind = "rescaled" /\ NormSq(search.query_embedding) # 0) =>
        HitIds(search.scaled_hits) = HitIds(search.hits)

\* C25: for a non-negative limit, a search over a scope of n records returns
\* exactly min(limit, n) hits; over a scope without records it returns the
\* empty list.
C25_HitCount ==
    (search.kind = "search" /\ search.limit >= 0) =>
        LET n == Cardinality(Scope(search.db_id))
        IN  /\ Len(search.hits) = Min(search.limit, n)
            /\ n = 0 => search.hits = <<>>

\* a search with limit 1 over a scope of two records has returned one hit,
\* while the store holds a record outside the scope
C25_Witness ==
    /\ search.kind = "search" /\ search.limit = 1
    /\ Cardinality(Scope(search.db_id)) = 2
    /\ Len(table_embeddings) = 3
    /\ Len(search.hits) = 1

\* the rows get_table_context is asked for: those of the connection and the
\* table, and of the schema when one is given
Asked(p) ==
    /\ table_embeddings[p].db_id = search.db_id
    /\ table_embeddings[p].table_name = search.table_name
    /\ search.schema_name \notin {NoneValue, <<>>} =>
           table_embeddings[p].schema_name = search.schema_name

\* C26: get_table_context(db_id, table_name, schema_name) returns every stored
\* unit, table-level or column-level, of that connection and table, and of
\* that schema when one is given, once each, and no other unit.
C26_TableContextExact ==
    search.kind = "table_context" =>
        LET P == {p \in DOMAIN table_embeddings : Asked(p)}
        IN  /\ Len(search.hits) = Cardinality(P)
            /\ \A p \in P :
                   \E j \in 1..Len(search.hits) :
                       /\ search.hits[j].id = table_embeddings[p].id
                       /\ search.hits[j].schema_name = table_embeddings[p].schema_name
                       /\ search.hits[j].table_name = table_embeddings[p].table_name
                       /\ search.hits[j].column_name = table_embeddings[p].column_name
                       /\ search.hits[j].description = table_embeddings[p].description
            /\ \A j \in 1..Len(search.hits) :
                   \E p \in P : search.hits[j].id = table_embeddings[p].id

\* a context asked with a schema name has returned a table-level and a
\* column-level unit, while the store holds a unit of the same connection and
\* table name in another schema
C26_Witness ==
    /\ search.kind = "table_context" /\ search.schema_name = public
    /\ Len(search.hits) = 2
    /\ \E j \in 1..2 : search.hits[j].column_name = NoneValue
    /\ \E j \in 1..2 : search.hits[j].column_name # NoneValue
    /\ \E p \in DOMAIN table_embeddings :
           /\ table_embeddings[p].db_id = search.db_id
           /\ table_embeddings[p].table_name = search.table_name
           /\ table_embeddings[p].schema_name = sales

C30_FailedConnectChangesNothing ==
    /\ (db_service.last.kind = "connect" /\ db_service.last.raised) =>
           /\ db_service.connections = db_service.last.connections
           /\ db_service.engines = db_service.last.engines
    /\ DOMAIN db_service.engines \subseteq DOMAIN db_service.connections

\* a connect call whose test query failed, on a service that holds an engine
\* and whose registries lack the id asked for
C30_Witness ==
    /\ db_service.last.kind = "connect" /\ db_service.last.raised
    /\ db_service.last.error = "connection test failed"
    /\ DOMAIN db_service.engines # {}
    /\ ConnectionId(db_service.last.request) \notin DOMAIN db_service.connections

(* ====================== reads and concurrent stores ==================== *)
\* the ids of the records of a connection among the ids in `committed`
CommittedOf(db_id, committed) ==
    {table_embeddings[i].id : i \in {j \in 1..Len(table_embeddings) :
        /\ table_embeddings[j].db_id = db_id
        /\ table_embeddings[j].id \in committed}}

====
